---------------------------- MODULE Spec2Model ----------------------------
(***************************************************************************)
(* A model of the natural-language-to-SQL backend: the NLPService          *)
(* (intent parsing, entity extraction, SQL generation with degradation to  *)
(* heuristics), the two keyword safety scans, and the QueryService         *)
(* (validation, gated mock execution, history).                            *)
(*                                                                         *)
(* Python strings are TLA+ strings; Len, Head, Tail, SubSeq and \o are the *)
(* sequence operators applied to them.  Real numbers of the source (the    *)
(* confidences 0.6, 0.7, ...) are held in tenths: 6 stands for 0.6.        *)
(***************************************************************************)
EXTENDS Integers, Sequences, FiniteSets, TLC

VARIABLES
    \* ---- pure scans applied to drawn inputs (SpecGate)
    strict_out,       \* last call of QueryService._is_dangerous_query
    sanitize_out,     \* last call of NLPService._sanitize_sql
    \* ---- one QueryService object (SpecQuery)
    query_history,    \* QueryService.query_history
    q_out,            \* what the last QueryService call returned
    \* ---- the heuristic fallbacks applied to a drawn question (SpecHeur)
    question,         \* the question the fallbacks are applied to
    fb_intent_out,    \* last call of NLPService._fallback_intent_parsing
    fb_sql_out,       \* last call of NLPService._fallback_sql_generation
    fb_entities_out,  \* last call of NLPService._fallback_entity_extraction
    \* ---- an NLPService serving requests (SpecNlp)
    api_key,          \* settings.OPENAI_API_KEY
    openai_available, \* NLPService.openai_available
    call,             \* per request in flight: where it is and what it returned
    \* ---- NLPService operations called with their context arguments (SpecCtx)
    ctx_call,         \* the last call: its arguments, its prompt, what it did
    \* ---- requests served concurrently on one event loop (SpecConc)
    task,             \* per request: the locals of its coroutine
    \* ---- one ChatService object (SpecChat)
    conversations,    \* ChatService.conversations
    chat_out,         \* what the last process_message was given and returned
    \* ---- the /query endpoints (SpecHttp)
    http_executed,    \* the /query/execute requests answered so far
    http_out          \* the last request and its response

gate_vars  == <<strict_out, sanitize_out>>
query_vars == <<query_history, q_out>>
heur_vars  == <<question, fb_intent_out, fb_sql_out, fb_entities_out>>
nlp_vars   == <<api_key, openai_available, call>>
ctx_vars   == <<ctx_call>>
conc_vars  == <<task>>
chat_vars  == <<conversations, chat_out>>
http_vars  == <<http_executed, http_out>>
vars == <<gate_vars, query_vars, heur_vars, nlp_vars, ctx_vars, conc_vars, chat_vars, http_vars>>

-----------------------------------------------------------------------------
(* Python str operations *)

LowerLetters == "abcdefghijklmnopqrstuvwxyz"
UpperLetters == "ABCDEFGHIJKLMNOPQRSTUVWXYZ"
Whitespace   == {" ", "\t", "\n", "\r"}

CharAt(s, i) == SubSeq(s, i, i)

\* the upper-case form of each lower-case letter, and the converse
UpperOf == [i \in 1..26 |-> CharAt(UpperLetters, i)]
LowerOf == [i \in 1..26 |-> CharAt(LowerLetters, i)]
ToUpper == [c \in {LowerOf[i] : i \in 1..26} |-> UpperOf[CHOOSE i \in 1..26 : LowerOf[i] = c]]
ToLower == [c \in {UpperOf[i] : i \in 1..26} |-> LowerOf[CHOOSE i \in 1..26 : UpperOf[i] = c]]

UpperChar(c) == IF c \in DOMAIN ToUpper THEN ToUpper[c] ELSE c
LowerChar(c) == IF c \in DOMAIN ToLower THEN ToLower[c] ELSE c

\* str.upper()
upper(s) ==
    LET up[i \in 0..Len(s)] ==
            IF i = 0 THEN "" ELSE up[i - 1] \o UpperChar(CharAt(s, i))
    IN  up[Len(s)]

\* str.lower()
lower(s) ==
    LET low[i \in 0..Len(s)] ==
            IF i = 0 THEN "" ELSE low[i - 1] \o LowerChar(CharAt(s, i))
    IN  low[Len(s)]

\* Python's  needle in hay  on two strings
In(needle, hay) ==
    \E i \in 1..(Len(hay) + 1) :
        /\ i + Len(needle) - 1 <= Len(hay)
        /\ SubSeq(hay, i, i + Len(needle) - 1) = needle

\* str.find(needle): the lowest 0-based offset of needle, -1 when absent
find(hay, needle) ==
    IF In(needle, hay)
    THEN (CHOOSE i \in 1..(Len(hay) + 1) :
            /\ i + Len(needle) - 1 <= Len(hay)
            /\ SubSeq(hay, i, i + Len(needle) - 1) = needle
            /\ \A j \in 1..(i - 1) : SubSeq(hay, j, j + Len(needle) - 1) # needle) - 1
    ELSE -1

RECURSIVE lstrip(_)
lstrip(s) == IF s # "" /\ Head(s) \in Whitespace THEN lstrip(Tail(s)) ELSE s

RECURSIVE rstrip(_)
rstrip(s) ==
    IF s # "" /\ CharAt(s, Len(s)) \in Whitespace
    THEN rstrip(SubSeq(s, 1, Len(s) - 1)) ELSE s

\* str.strip()
strip(s) == rstrip(lstrip(s))

startswith(s, prefix) == Len(prefix) <= Len(s) /\ SubSeq(s, 1, Len(prefix)) = prefix
endswith(s, suffix) ==
    Len(suffix) <= Len(s) /\ SubSeq(s, Len(s) - Len(suffix) + 1, Len(s)) = suffix

\* any(word in text for word in words)
AnyIn(words, text) == \E k \in 1..Len(words) : In(words[k], text)

-----------------------------------------------------------------------------
(* The two keyword scans *)

\* QueryService._is_dangerous_query: dangerous_keywords
strict_dangerous_keywords ==
    <<"DROP", "DELETE", "TRUNCATE", "ALTER", "CREATE",
      "GRANT", "REVOKE", "INSERT", "UPDATE">>

\* NLPService._sanitize_sql: dangerous_keywords
sanitize_dangerous_keywords ==
    <<"DROP", "DELETE", "TRUNCATE", "ALTER", "CREATE", "GRANT", "REVOKE">>

\* a single denylist for both scans: INSERT and UPDATE no longer flagged
is_dangerous_query_unified(sql_query) ==
    AnyIn(sanitize_dangerous_keywords, upper(sql_query))

\* hidden state: once a statement was rejected, every statement is flagged
is_dangerous_query_after_strike(sql_query) ==
    \/ AnyIn(strict_dangerous_keywords, upper(sql_query))
    \/ \E k \in 1..Len(query_history) : ~ query_history[k].success

\* QueryService._is_dangerous_query
_is_dangerous_query(sql_query) ==
    LET query_upper == upper(sql_query)
    IN  AnyIn(strict_dangerous_keywords, query_upper)

\* the logger.warning calls of NLPService._sanitize_sql, one per keyword of
\* the list found in the upper-cased statement, in list order
sanitize_warnings(sql_query) ==
    LET sql_upper == upper(sql_query)
    IN  SelectSeq(sanitize_dangerous_keywords, LAMBDA keyword : In(keyword, sql_upper))

\* NLPService._sanitize_sql: its return value
_sanitize_sql(sql_query) == strip(sql_query)

-----------------------------------------------------------------------------
(* QueryService *)

\* QueryService._execute_mock_query: (mock_data, mock_columns); a row is
\* written as its key value
_execute_mock_query(sql_query) ==
    IF In("users", lower(sql_query))
    THEN [data |-> <<1, 2, 3>>, columns |-> <<"id", "name", "email", "created_at">>]
    ELSE IF In("orders", lower(sql_query))
    THEN [data |-> <<101, 102, 103>>, columns |-> <<"order_id", "user_id", "amount", "status">>]
    ELSE IF In("products", lower(sql_query))
    THEN [data |-> <<1, 2, 3>>, columns |-> <<"product_id", "name", "price", "category">>]
    ELSE [data |-> <<1, 2>>, columns |-> <<"column1", "column2">>]

\* time.time() at the append: the history position stands for the wall clock
Now(history) == Len(history) + 1

\* no  except Exception  clause: the ValueError of the gate leaves the method
execute_query_unguarded(sql_query, user_id, dry_run) ==
    IF _is_dangerous_query(sql_query)
    THEN [ret |-> [raised |-> "ValueError"],
          history |-> query_history,
          mock_called |-> FALSE]
    ELSE IF dry_run
    THEN [ret |-> [success |-> TRUE, data |-> <<>>, columns |-> <<>>,
                   row_count |-> 0, metadata |-> "dry_run"],
          history |-> query_history,
          mock_called |-> FALSE]
    ELSE LET mock == _execute_mock_query(sql_query)
         IN  [ret |-> [success |-> TRUE, data |-> mock.data, columns |-> mock.columns,
                       row_count |-> Len(mock.data), metadata |-> "mock"],
              history |-> Append(query_history,
                             [sql_query |-> sql_query, user_id |-> user_id,
                              executed_at |-> Now(query_history),
                              row_count |-> Len(mock.data), success |-> TRUE]),
              mock_called |-> TRUE]

\* a dry run is stored in the history like an execution
execute_query_logs_dry_runs(sql_query, user_id, dry_run) ==
    IF _is_dangerous_query(sql_query)
    THEN LET error_message == "Potentially dangerous query detected"
         IN  [ret |-> [success |-> FALSE, data |-> <<>>, columns |-> <<>>,
                       row_count |-> 0, error |-> error_message],
              history |-> Append(query_history,
                             [sql_query |-> sql_query, user_id |-> user_id,
                              executed_at |-> Now(query_history), row_count |-> 0,
                              success |-> FALSE, error_message |-> error_message]),
              mock_called |-> FALSE]
    ELSE IF dry_run
    THEN [ret |-> [success |-> TRUE, data |-> <<>>, columns |-> <<>>,
                   row_count |-> 0, metadata |-> "dry_run"],
          history |-> Append(query_history,
                         [sql_query |-> sql_query, user_id |-> user_id,
                          executed_at |-> Now(query_history), row_count |-> 0,
                          success |-> TRUE]),
          mock_called |-> FALSE]
    ELSE LET mock == _execute_mock_query(sql_query)
         IN  [ret |-> [success |-> TRUE, data |-> mock.data, columns |-> mock.columns,
                       row_count |-> Len(mock.data), metadata |-> "mock"],
              history |-> Append(query_history,
                             [sql_query |-> sql_query, user_id |-> user_id,
                              executed_at |-> Now(query_history),
                              row_count |-> Len(mock.data), success |-> TRUE]),
              mock_called |-> TRUE]

\* the dry_run short-circuit taken before the gate
execute_query_dry_run_first(sql_query, user_id, dry_run) ==
    IF dry_run
    THEN [ret |-> [success |-> TRUE, data |-> <<>>, columns |-> <<>>,
                   row_count |-> 0, metadata |-> "dry_run"],
          history |-> query_history,
          mock_called |-> FALSE]
    ELSE LET mock == _execute_mock_query(sql_query)
         IN  [ret |-> [success |-> TRUE, data |-> mock.data, columns |-> mock.columns,
                       row_count |-> Len(mock.data), metadata |-> "mock"],
              history |-> query_history,
              mock_called |-> TRUE]

\* QueryService.execute_query.  ret is the returned dict, history the value of
\* query_history after the call, mock_called whether _execute_mock_query ran.
\* (query_id and execution_time, a uuid and a duration, are left out.)
execute_query(sql_query, user_id, dry_run) ==
    IF _is_dangerous_query(sql_query)
    THEN \* raise ValueError, caught by  except Exception
         LET error_message == "Potentially dangerous query detected"
         IN  [ret |-> [success |-> FALSE, data |-> <<>>, columns |-> <<>>,
                       row_count |-> 0, error |-> error_message],
              history |-> Append(query_history,
                             [sql_query |-> sql_query, user_id |-> user_id,
                              executed_at |-> Now(query_history), row_count |-> 0,
                              success |-> FALSE, error_message |-> error_message]),
              mock_called |-> FALSE]
    ELSE IF dry_run
    THEN [ret |-> [success |-> TRUE, data |-> <<>>, columns |-> <<>>,
                   row_count |-> 0, metadata |-> "dry_run"],
          history |-> query_history,
          mock_called |-> FALSE]
    ELSE LET mock == _execute_mock_query(sql_query)
         IN  [ret |-> [success |-> TRUE, data |-> mock.data, columns |-> mock.columns,
                       row_count |-> Len(mock.data), metadata |-> "mock"],
              history |-> Append(query_history,
                             [sql_query |-> sql_query, user_id |-> user_id,
                              executed_at |-> Now(query_history),
                              row_count |-> Len(mock.data), success |-> TRUE]),
              mock_called |-> TRUE]

\* list.sort(key=executed_at, reverse=True): stable, largest first
RECURSIVE SortByExecutedAtDesc(_)
SortByExecutedAtDesc(qs) ==
    IF qs = <<>> THEN <<>>
    ELSE LET i == CHOOSE i \in 1..Len(qs) :
                    /\ \A j \in 1..Len(qs) : qs[j].executed_at <= qs[i].executed_at
                    /\ \A j \in 1..(i - 1) : qs[j].executed_at < qs[i].executed_at
         IN  <<qs[i]>> \o SortByExecutedAtDesc(SubSeq(qs, 1, i - 1) \o SubSeq(qs, i + 1, Len(qs)))

\* seq[offset:offset + limit] for offset, limit >= 0
Slice(seq, offset, limit) ==
    SubSeq(seq, offset + 1, IF offset + limit < Len(seq) THEN offset + limit ELSE Len(seq))

\* QueryService.get_query_history
get_query_history(user_id, limit, offset) ==
    LET user_queries == SelectSeq(query_history, LAMBDA q : q.user_id = user_id)
    IN  Slice(SortByExecutedAtDesc(user_queries), offset, limit)

\* validity decided by warnings as well as errors
validate_query_warnings_count(sql_query, schema_context) ==
    [is_valid |-> ~ _is_dangerous_query(sql_query) /\ endswith(strip(sql_query), ";"),
     errors |-> IF _is_dangerous_query(sql_query)
                THEN <<"Query contains potentially dangerous operations">> ELSE <<>>,
     warnings |-> <<>>,
     suggestions |-> <<>>,
     estimated_execution_time |-> 1]

\* QueryService.validate_query (nothing in its try block raises on a str, so
\* the except branch is never taken)
validate_query(sql_query, schema_context) ==
    LET errors ==
            IF _is_dangerous_query(sql_query)
            THEN <<"Query contains potentially dangerous operations">> ELSE <<>>
        no_semicolon == ~ endswith(strip(sql_query), ";")
        select_star  == In("SELECT *", upper(sql_query))
        not_select   == ~ ( \/ startswith(strip(upper(sql_query)), "SELECT")
                            \/ startswith(strip(upper(sql_query)), "WITH") )
        warnings ==
            (IF no_semicolon THEN <<"Query should end with semicolon">> ELSE <<>>)
            \o (IF select_star THEN <<"Using SELECT * may impact performance">> ELSE <<>>)
            \o (IF not_select THEN <<"Only SELECT queries are recommended for safety">> ELSE <<>>)
        suggestions ==
            (IF no_semicolon THEN <<"Add semicolon at the end">> ELSE <<>>)
            \o (IF select_star THEN <<"Specify explicit column names">> ELSE <<>>)
    IN  [is_valid |-> Len(errors) = 0,
         errors |-> errors,
         warnings |-> warnings,
         suggestions |-> suggestions,
         estimated_execution_time |-> 1]

-----------------------------------------------------------------------------
(* NLPService: the heuristic fallbacks.  A Python value whose type varies is
   written with its type as the field name: [dict |-> d], [list |-> l],
   [str |-> s], [int |-> n], [null |-> TRUE]. *)

\* the retrieval rule checked after the statistical one
fallback_intent_aggregate_first(query) ==
    LET query_lower == lower(query)
        intent ==
            IF AnyIn(<<"count", "sum", "average", "total">>, query_lower) THEN "AGGREGATE"
            ELSE IF AnyIn(<<"show", "list", "get", "find", "select">>, query_lower) THEN "SELECT"
            ELSE IF AnyIn(<<"add", "insert", "create">>, query_lower) THEN "INSERT"
            ELSE IF AnyIn(<<"update", "change", "modify">>, query_lower) THEN "UPDATE"
            ELSE IF AnyIn(<<"delete", "remove">>, query_lower) THEN "DELETE"
            ELSE "SELECT"
    IN  [dict |-> [intent |-> intent, confidence |-> 7, entities |-> <<>>,
                   metadata |-> [fallback |-> TRUE]]]

\* NLPService._fallback_intent_parsing
_fallback_intent_parsing(query) ==
    LET query_lower == lower(query)
        intent ==
            IF AnyIn(<<"show", "list", "get", "find", "select">>, query_lower) THEN "SELECT"
            ELSE IF AnyIn(<<"add", "insert", "create">>, query_lower) THEN "INSERT"
            ELSE IF AnyIn(<<"update", "change", "modify">>, query_lower) THEN "UPDATE"
            ELSE IF AnyIn(<<"delete", "remove">>, query_lower) THEN "DELETE"
            ELSE IF AnyIn(<<"count", "sum", "average", "total">>, query_lower) THEN "AGGREGATE"
            ELSE "SELECT"
    IN  [dict |-> [intent |-> intent, confidence |-> 7, entities |-> <<>>,
                   metadata |-> [fallback |-> TRUE]]]

\* the dict every branch of _fallback_sql_generation returns
FallbackSqlResult(sql_query, explanation) ==
    [dict |-> [sql_query |-> sql_query,
               explanation |-> explanation,
               confidence |-> 6,
               suggested_modifications |->
                   <<"Specify exact table and column names",
                     "Add WHERE conditions for filtering",
                     "Consider JOIN operations if multiple tables are needed",
                     "Check OpenAI API key configuration for better results">>,
               metadata |-> [fallback |-> TRUE,
                             reason |-> "OpenAI API unavailable or timed out"]]]

\* the keywords looked up in the question as typed, not lower-cased
fallback_sql_case_sensitive(query) ==
    IF In("people", query) \/ In("users", query)
    THEN IF In("first", query) \/ In("10", query) \/ In("limit", query)
         THEN FallbackSqlResult("SELECT * FROM users LIMIT 10;",
                                "Retrieves the first 10 records from the users table")
         ELSE FallbackSqlResult("SELECT * FROM users;",
                                "Retrieves all records from the users table")
    ELSE IF In("count", query)
    THEN FallbackSqlResult("SELECT COUNT(*) FROM users;",
                           "Counts the total number of records in the users table")
    ELSE IF In("products", query)
    THEN FallbackSqlResult("SELECT * FROM products LIMIT 10;",
                           "Retrieves the first 10 products from the products table")
    ELSE IF In("orders", query)
    THEN FallbackSqlResult("SELECT * FROM orders LIMIT 10;",
                           "Retrieves the first 10 orders from the orders table")
    ELSE FallbackSqlResult("SELECT * FROM users LIMIT 10;",
                           "Default query - please provide more specific requirements or check OpenAI API configuration")

\* the orders rule checked before the products rule
fallback_sql_orders_first(query) ==
    LET query_lower == lower(query)
    IN  IF In("people", query_lower) \/ In("users", query_lower)
        THEN IF In("first", query_lower) \/ In("10", query_lower) \/ In("limit", query_lower)
             THEN FallbackSqlResult("SELECT * FROM users LIMIT 10;",
                                    "Retrieves the first 10 records from the users table")
             ELSE FallbackSqlResult("SELECT * FROM users;",
                                    "Retrieves all records from the users table")
        ELSE IF In("count", query_lower)
        THEN FallbackSqlResult("SELECT COUNT(*) FROM users;",
                               "Counts the total number of records in the users table")
        ELSE IF In("orders", query_lower)
        THEN FallbackSqlResult("SELECT * FROM orders LIMIT 10;",
                               "Retrieves the first 10 orders from the orders table")
        ELSE IF In("products", query_lower)
        THEN FallbackSqlResult("SELECT * FROM products LIMIT 10;",
                               "Retrieves the first 10 products from the products table")
        ELSE FallbackSqlResult("SELECT * FROM users LIMIT 10;",
                               "Default query - please provide more specific requirements or check OpenAI API configuration")

\* an orders template sorted by creation date
fallback_sql_orders_by_created_at(query) ==
    LET query_lower == lower(query)
    IN  IF In("people", query_lower) \/ In("users", query_lower)
        THEN IF In("first", query_lower) \/ In("10", query_lower) \/ In("limit", query_lower)
             THEN FallbackSqlResult("SELECT * FROM users LIMIT 10;",
                                    "Retrieves the first 10 records from the users table")
             ELSE FallbackSqlResult("SELECT * FROM users;",
                                    "Retrieves all records from the users table")
        ELSE IF In("count", query_lower)
        THEN FallbackSqlResult("SELECT COUNT(*) FROM users;",
                               "Counts the total number of records in the users table")
        ELSE IF In("products", query_lower)
        THEN FallbackSqlResult("SELECT * FROM products LIMIT 10;",
                               "Retrieves the first 10 products from the products table")
        ELSE IF In("orders", query_lower)
        THEN FallbackSqlResult("SELECT * FROM orders ORDER BY created_at DESC LIMIT 10;",
                               "Retrieves the first 10 orders from the orders table")
        ELSE FallbackSqlResult("SELECT * FROM users LIMIT 10;",
                               "Default query - please provide more specific requirements or check OpenAI API configuration")

\* NLPService._fallback_sql_generation
_fallback_sql_generation(query) ==
    LET query_lower == lower(query)
    IN  IF In("people", query_lower) \/ In("users", query_lower)
        THEN IF In("first", query_lower) \/ In("10", query_lower) \/ In("limit", query_lower)
             THEN FallbackSqlResult("SELECT * FROM users LIMIT 10;",
                                    "Retrieves the first 10 records from the users table")
             ELSE FallbackSqlResult("SELECT * FROM users;",
                                    "Retrieves all records from the users table")
        ELSE IF In("count", query_lower)
        THEN FallbackSqlResult("SELECT COUNT(*) FROM users;",
                               "Counts the total number of records in the users table")
        ELSE IF In("products", query_lower)
        THEN FallbackSqlResult("SELECT * FROM products LIMIT 10;",
                               "Retrieves the first 10 products from the products table")
        ELSE IF In("orders", query_lower)
        THEN FallbackSqlResult("SELECT * FROM orders LIMIT 10;",
                               "Retrieves the first 10 orders from the orders table")
        ELSE FallbackSqlResult("SELECT * FROM users LIMIT 10;",
                               "Default query - please provide more specific requirements or check OpenAI API configuration")

-----------------------------------------------------------------------------
(* Inputs *)

\* SQL statements handed to the scans, to validation and to execution
SqlPool ==
    { "SELECT * FROM users;",
      "select name from users",
      "SELECT 1;",
      "WITH x AS (SELECT 1) SELECT * FROM x;",
      "SELECT * FROM products LIMIT 10",
      "",
      "DRO P",
      "DELETE FROM users",
      "drop table users;",
      "  TRUNCATE t \n",
      "Alter table t",
      "SELECT created_at FROM orders;",
      "GRANT ALL",
      "revoke all;",
      "Insert into t",
      "update t set a=1",
      "SELECT updated_at FROM t",
      "insert; delete" }

\* the statements sent to one QueryService object
QuerySqlPool ==
    { "SELECT * FROM users;",
      "select 1",
      "SELECT * FROM orders ",
      "DELETE FROM users",
      "Insert into t;",
      "SELECT updated_at FROM products;",
      "WITH x AS (SELECT 1) SELECT 2;" }

\* the statements handed to execute_query
ExecSqlPool ==
    { "SELECT * FROM users;",
      "select 1",
      "DELETE FROM users",
      "SELECT updated_at FROM products;" }

\* the statements scanned, validated and executed in turn
ScanSqlPool ==
    { "select 1",
      "DELETE FROM users",
      "SELECT updated_at FROM products;" }

UserIds == {"alice", "bob"}

\* schema_context: None or a schema dict
SchemaContexts == {"None", "schema"}

\* the most entries query_history holds in a run
MaxHistory == 2

\* limit and offset of get_query_history range over 0..MaxPage
MaxPage == 2

-----------------------------------------------------------------------------
(* SpecGate: the two scans applied to statements of SqlPool *)

NoCall == [called |-> FALSE]

InitGate ==
    /\ strict_out = NoCall
    /\ sanitize_out = NoCall

\* a call of QueryService._is_dangerous_query
IsDangerousQueryCall(s) ==
    /\ strict_out' = [called |-> TRUE, sql_query |-> s, ret |-> _is_dangerous_query(s)]
    /\ UNCHANGED sanitize_out
    /\ UNCHANGED <<query_vars, heur_vars, nlp_vars, ctx_vars, conc_vars, chat_vars, http_vars>>

\* a call of NLPService._sanitize_sql
SanitizeSqlCall(s) ==
    /\ sanitize_out' = [called |-> TRUE, sql_query |-> s, ret |-> _sanitize_sql(s),
                        warnings |-> sanitize_warnings(s)]
    /\ UNCHANGED strict_out
    /\ UNCHANGED <<query_vars, heur_vars, nlp_vars, ctx_vars, conc_vars, chat_vars, http_vars>>

-----------------------------------------------------------------------------
(* SpecQuery: one QueryService object *)

InitQuery ==
    /\ query_history = <<>>
    /\ q_out = [op |-> "none"]

ExecuteQuery(s, u, d) ==
    /\ Len(query_history) < MaxHistory
    /\ LET r == execute_query(s, u, d)
       IN  /\ query_history' = r.history
           /\ q_out' = [op |-> "execute_query", sql_query |-> s, user_id |-> u,
                        dry_run |-> d, ret |-> r.ret, mock_called |-> r.mock_called]
    /\ UNCHANGED <<gate_vars, heur_vars, nlp_vars, ctx_vars, conc_vars, chat_vars, http_vars>>

ValidateQuery(s, ctx) ==
    /\ q_out' = [op |-> "validate_query", sql_query |-> s, schema_context |-> ctx,
                 ret |-> validate_query(s, ctx)]
    /\ UNCHANGED query_history
    /\ UNCHANGED <<gate_vars, heur_vars, nlp_vars, ctx_vars, conc_vars, chat_vars, http_vars>>

GetQueryHistory(u, limit, offset) ==
    /\ q_out' = [op |-> "get_query_history", user_id |-> u,
                 ret |-> get_query_history(u, limit, offset)]
    /\ UNCHANGED query_history
    /\ UNCHANGED <<gate_vars, heur_vars, nlp_vars, ctx_vars, conc_vars, chat_vars, http_vars>>

\* regular-expression character classes \d and \w (ASCII)
Digits == "0123456789"
IsDigit(c) == \E i \in 1..10 : CharAt(Digits, i) = c
IsWordChar(c) == IsDigit(c) \/ c \in DOMAIN ToUpper \/ c \in DOMAIN ToLower \/ c = "_"

\* int(num) for a string of digits
ParseInt(num) ==
    LET val[i \in 0..Len(num)] ==
            IF i = 0 THEN 0
            ELSE val[i - 1] * 10 + ((CHOOSE d \in 1..10 : CharAt(Digits, d) = CharAt(num, i)) - 1)
    IN  val[Len(num)]

\* the last position of the run of digits that starts at i
DigitRunEnd(query, i) ==
    CHOOSE j \in i..Len(query) :
        /\ \A k \in i..j : IsDigit(CharAt(query, k))
        /\ j = Len(query) \/ ~ IsDigit(CharAt(query, j + 1))

\* whether  \b\d+\b  matches at position i
NumberStartsAt(query, i) ==
    /\ IsDigit(CharAt(query, i))
    /\ i = 1 \/ ~ IsWordChar(CharAt(query, i - 1))
    /\ LET j == DigitRunEnd(query, i)
       IN  j = Len(query) \/ ~ IsWordChar(CharAt(query, j + 1))

\* re.findall(r'\b\d+\b', query), scanning from position i: the matches are
\* the runs of digits that start and end at a word boundary, left to right
FindNumbers(query, i) ==
    LET found[j \in (i - 1)..Len(query)] ==
            IF j = i - 1 THEN <<>>
            ELSE IF NumberStartsAt(query, j)
            THEN found[j - 1] \o <<SubSeq(query, j, DigitRunEnd(query, j))>>
            ELSE found[j - 1]
    IN  found[Len(query)]

\* re.findall of  quote([^quote]*)quote , scanning from position i: each
\* opening quote is matched with the next quote, and the scan goes on after it
FindQuoted(query, quote, i) ==
    LET scan[j \in (i - 1)..Len(query)] ==
            IF j = i - 1 THEN [open |-> 0, matches |-> <<>>]
            ELSE IF CharAt(query, j) # quote THEN scan[j - 1]
            ELSE IF scan[j - 1].open = 0
            THEN [scan[j - 1] EXCEPT !.open = j]
            ELSE [open |-> 0,
                  matches |-> scan[j - 1].matches
                                \o <<SubSeq(query, scan[j - 1].open + 1, j - 1)>>]
    IN  scan[Len(query)].matches

\* NLPService._fallback_entity_extraction
_fallback_entity_extraction(query) ==
    LET numbers == FindNumbers(query, 1)
        quoted_strings == FindQuoted(query, "\"", 1) \o FindQuoted(query, "'", 1)
    IN  [list |->
            [k \in 1..Len(numbers) |->
                [type |-> "NUMERIC_VALUE", value |-> [int |-> ParseInt(numbers[k])],
                 confidence |-> 8, position |-> find(query, numbers[k])]]
            \o
            [k \in 1..Len(quoted_strings) |->
                [type |-> "TEXT_VALUE", value |-> [str |-> quoted_strings[k]],
                 confidence |-> 9, position |-> find(query, quoted_strings[k])]]]

-----------------------------------------------------------------------------
(* SpecHeur: the heuristic fallbacks applied to questions of QuestionPool *)

QuestionPool ==
    { "Show me all users",
      "first 10 people",
      "PEOPLE",
      "list users limit 5",
      "show 100 users",
      "Users First",
      "count users",
      "count products",
      "Count the orders",
      "products and orders",
      "orders of Products",
      "ORDERS",
      "hello",
      "",
      "show count",
      "total count",
      "add a user",
      "create and update",
      "update and delete",
      "remove total",
      "sum of sales",
      "all together",
      "home address",
      "Insert then Select",
      "average price",
      "find user 42 named 'Bob'",
      "ids 7 and 7",
      "limit 10" }

\* the question is drawn from questions; no fallback has been applied yet
InitHeur(questions) ==
    /\ question \in questions
    /\ fb_intent_out = NoCall
    /\ fb_sql_out = NoCall
    /\ fb_entities_out = NoCall

FallbackIntentParsingCall ==
    /\ fb_intent_out' = [called |-> TRUE, query |-> question,
                         ret |-> _fallback_intent_parsing(question)]
    /\ UNCHANGED <<question, fb_sql_out, fb_entities_out>>
    /\ UNCHANGED <<gate_vars, query_vars, nlp_vars, ctx_vars, conc_vars, chat_vars, http_vars>>

FallbackSqlGenerationCall ==
    /\ fb_sql_out' = [called |-> TRUE, query |-> question,
                      ret |-> _fallback_sql_generation(question)]
    /\ UNCHANGED <<question, fb_intent_out, fb_entities_out>>
    /\ UNCHANGED <<gate_vars, query_vars, nlp_vars, ctx_vars, conc_vars, chat_vars, http_vars>>

FallbackEntityExtractionCall ==
    /\ fb_entities_out' = [called |-> TRUE, query |-> question,
                           ret |-> _fallback_entity_extraction(question)]
    /\ UNCHANGED <<question, fb_intent_out, fb_sql_out>>
    /\ UNCHANGED <<gate_vars, query_vars, nlp_vars, ctx_vars, conc_vars, chat_vars, http_vars>>

-----------------------------------------------------------------------------
(* NLPService: construction and the three operations *)

\* settings.OPENAI_API_KEY: None or a string
ApiKeys ==
    { [null |-> TRUE], [str |-> ""], [str |-> "your_openai_api_key_here"], [str |-> "sk-test"] }

\* the placeholder taken for a key
NLPService_init_accepts_placeholder(key) ==
    IF ("null" \in DOMAIN key) \/ key.str = "" THEN FALSE ELSE TRUE

\* NLPService.__init__: the value given to self.openai_available
NLPService_init(key) ==
    IF ("null" \in DOMAIN key) \/ key.str = "" \/ key.str = "your_openai_api_key_here"
    THEN FALSE ELSE TRUE

\* response.choices[0].message.content as json.loads sees it: text that does
\* not decode, or the decoded value
ProviderContents ==
    { [undecodable |-> TRUE],
      [json |-> [num |-> 42]],
      [json |-> [str |-> "SELECT"]],
      [json |-> [list |-> << [type |-> "TABLE_NAME", value |-> [str |-> "users"],
                             confidence |-> 9, position |-> 12] >>]],
      [json |-> [dict |-> [intent |-> "JOIN", confidence |-> 9, entities |-> <<>>,
                           metadata |-> [source |-> "provider"]]]],
      [json |-> [dict |-> [confidence |-> 9]]],
      [json |-> [dict |-> [intent |-> "SELECT", confidence |-> 9, entities |-> <<>>,
                           metadata |-> [fallback |-> TRUE]]]],
      [json |-> [dict |-> [intent |-> "EXPLAIN", confidence |-> 15, entities |-> <<>>]]],
      [json |-> [dict |-> [sql_query |-> [str |-> "SELECT 1;"],
                           explanation |-> "One", confidence |-> 15]]],
      [json |-> [dict |-> [sql_query |-> [str |-> "SELECT name FROM users;"],
                           explanation |-> "Lists the user names", confidence |-> 9]]],
      [json |-> [dict |-> [sql_query |-> [str |-> "  drop table users; \n"],
                           explanation |-> "Removes the table", confidence |-> 9]]],
      [json |-> [dict |-> [sql_query |-> [num |-> 1],
                           explanation |-> "A number", confidence |-> 9]]] }

NoContent == [none |-> TRUE]

\* what one call of an operation did: the return statement taken (path), the
\* returned value, the statements handed to _sanitize_sql, the warnings it
\* logged, and whether an exception left the method
Returned(path, ret, sanitized, warnings) ==
    [path |-> path, ret |-> ret, sanitized |-> sanitized, warnings |-> warnings,
     raised |-> FALSE]

Raised == [path |-> "raise", ret |-> [none |-> TRUE], sanitized |-> <<>>,
           warnings |-> <<>>, raised |-> TRUE]

\* no  except Exception  clause: only the timeout is caught
parse_intent_timeout_only(query, event, content) ==
    IF ~ openai_available
    THEN Returned("fallback", _fallback_intent_parsing(query), <<>>, <<>>)
    ELSE IF event = "timeout"
    THEN Returned("fallback", _fallback_intent_parsing(query), <<>>, <<>>)
    ELSE IF event = "provider_error" \/ "undecodable" \in DOMAIN content
    THEN Raised
    ELSE IF "dict" \notin DOMAIN content.json
    THEN Raised
    ELSE Returned("llm", content.json, <<>>, <<>>)

\* NLPService.parse_intent, given what the provider call did (event): it was
\* never started ("unconfigured"), answered with content ("response"), ran
\* into asyncio.TimeoutError ("timeout") or raised ("provider_error")
parse_intent(query, event, content) ==
    IF ~ openai_available
    THEN Returned("fallback", _fallback_intent_parsing(query), <<>>, <<>>)
    ELSE IF event = "timeout"
    THEN Returned("fallback", _fallback_intent_parsing(query), <<>>, <<>>)
    ELSE IF event = "provider_error" \/ "undecodable" \in DOMAIN content
    THEN \* APIError, or json.loads raising: except Exception
         Returned("fallback", _fallback_intent_parsing(query), <<>>, <<>>)
    ELSE IF "dict" \notin DOMAIN content.json
    THEN \* result.get raises AttributeError: except Exception
         Returned("fallback", _fallback_intent_parsing(query), <<>>, <<>>)
    ELSE Returned("llm", content.json, <<>>, <<>>)

\* NLPService.extract_entities
extract_entities(query, event, content) ==
    IF ~ openai_available
    THEN Returned("fallback", _fallback_entity_extraction(query), <<>>, <<>>)
    ELSE IF event = "timeout"
    THEN Returned("fallback", _fallback_entity_extraction(query), <<>>, <<>>)
    ELSE IF event = "provider_error" \/ "undecodable" \in DOMAIN content
    THEN Returned("fallback", _fallback_entity_extraction(query), <<>>, <<>>)
    ELSE IF "num" \in DOMAIN content.json \/ "null" \in DOMAIN content.json
    THEN \* len(entities) raises TypeError: except Exception
         Returned("fallback", _fallback_entity_extraction(query), <<>>, <<>>)
    ELSE Returned("llm", content.json, <<>>, <<>>)

\* the provider's SQL returned as received, never handed to _sanitize_sql
generate_sql_unscanned(query, event, content) ==
    IF ~ openai_available
    THEN Returned("fallback", _fallback_sql_generation(query), <<>>, <<>>)
    ELSE IF event = "timeout"
    THEN Returned("fallback", _fallback_sql_generation(query), <<>>, <<>>)
    ELSE IF event = "provider_error" \/ "undecodable" \in DOMAIN content
    THEN Returned("fallback", _fallback_sql_generation(query), <<>>, <<>>)
    ELSE IF "dict" \notin DOMAIN content.json
    THEN Returned("fallback", _fallback_sql_generation(query), <<>>, <<>>)
    ELSE IF "sql_query" \notin DOMAIN content.json.dict
    THEN Returned("fallback", _fallback_sql_generation(query), <<>>, <<>>)
    ELSE IF "str" \notin DOMAIN content.json.dict.sql_query
    THEN Returned("fallback", _fallback_sql_generation(query), <<>>, <<>>)
    ELSE LET result == content.json.dict
         IN  Returned("llm", [dict |-> [result EXCEPT !.sql_query = result.sql_query.str]],
                      <<>>, <<>>)

\* a blocking gate: a provider statement that draws a warning is replaced by
\* the heuristic result
generate_sql_blocks_flagged(query, event, content) ==
    IF ~ openai_available
    THEN Returned("fallback", _fallback_sql_generation(query), <<>>, <<>>)
    ELSE IF event = "timeout"
    THEN Returned("fallback", _fallback_sql_generation(query), <<>>, <<>>)
    ELSE IF event = "provider_error" \/ "undecodable" \in DOMAIN content
    THEN Returned("fallback", _fallback_sql_generation(query), <<>>, <<>>)
    ELSE IF "dict" \notin DOMAIN content.json
    THEN Returned("fallback", _fallback_sql_generation(query), <<>>, <<>>)
    ELSE IF "sql_query" \notin DOMAIN content.json.dict
    THEN Returned("fallback", _fallback_sql_generation(query), <<>>, <<>>)
    ELSE IF "str" \notin DOMAIN content.json.dict.sql_query
    THEN Returned("fallback", _fallback_sql_generation(query), <<>>, <<>>)
    ELSE LET result == content.json.dict
             sql == result.sql_query.str
         IN  IF sanitize_warnings(sql) # <<>>
             THEN Returned("fallback", _fallback_sql_generation(query), <<sql>>,
                           sanitize_warnings(sql))
             ELSE Returned("llm", [dict |-> [result EXCEPT !.sql_query = _sanitize_sql(sql)]],
                           <<sql>>, sanitize_warnings(sql))

\* NLPService.generate_sql
generate_sql(query, event, content) ==
    IF ~ openai_available
    THEN Returned("fallback", _fallback_sql_generation(query), <<>>, <<>>)
    ELSE IF event = "timeout"
    THEN Returned("fallback", _fallback_sql_generation(query), <<>>, <<>>)
    ELSE IF event = "provider_error" \/ "undecodable" \in DOMAIN content
    THEN Returned("fallback", _fallback_sql_generation(query), <<>>, <<>>)
    ELSE IF "dict" \notin DOMAIN content.json
    THEN \* result["sql_query"] raises TypeError: except Exception
         Returned("fallback", _fallback_sql_generation(query), <<>>, <<>>)
    ELSE IF "sql_query" \notin DOMAIN content.json.dict
    THEN \* KeyError: except Exception
         Returned("fallback", _fallback_sql_generation(query), <<>>, <<>>)
    ELSE IF "str" \notin DOMAIN content.json.dict.sql_query
    THEN \* sql_query.upper() raises AttributeError: except Exception
         Returned("fallback", _fallback_sql_generation(query), <<>>, <<>>)
    ELSE LET result == content.json.dict
             sql == result.sql_query.str
         IN  Returned("llm", [dict |-> [result EXCEPT !.sql_query = _sanitize_sql(sql)]],
                      <<sql>>, sanitize_warnings(sql))

Operation(op, query, event, content) ==
    CASE op = "parse_intent"     -> parse_intent(query, event, content)
      [] op = "extract_entities" -> extract_entities(query, event, content)
      [] op = "generate_sql"     -> generate_sql(query, event, content)

-----------------------------------------------------------------------------
(* SpecNlp: requests served by an NLPService; each request runs one operation
   and shares nothing but the configuration with the others *)

\* the most requests in flight at once
NumCalls == 1
Calls == 1..NumCalls

NlpQuestions == {"Show me all users", "count products", "find user 42 named 'Bob'"}

IdleCall ==
    [pc |-> "idle", op |-> "none", query |-> "", event |-> "none", content |-> NoContent,
     provider_calls |-> 0]

\* the API key is drawn, the service constructed, no request in flight
InitNlp(keys) ==
    /\ api_key \in keys
    /\ openai_available = NLPService_init(api_key)
    /\ call = [c \in Calls |-> IdleCall]

\* no short-circuit on openai_available: the provider call is always started
Enter_always_calls_provider(c, op, q) ==
    /\ call[c].pc = "idle"
    /\ call' = [call EXCEPT ![c] =
          [pc |-> "awaiting", op |-> op, query |-> q, event |-> "none",
           content |-> NoContent, provider_calls |-> 1]]
    /\ UNCHANGED <<api_key, openai_available>>
    /\ UNCHANGED <<gate_vars, query_vars, heur_vars, ctx_vars, conc_vars, chat_vars, http_vars>>

\* the method is entered: unconfigured, it returns at once; otherwise it starts
\* the provider call and awaits it under asyncio.wait_for
Enter(c, op, q) ==
    /\ call[c].pc = "idle"
    /\ call' = [call EXCEPT ![c] =
          IF ~ openai_available
          THEN [pc |-> "returned", op |-> op, query |-> q, event |-> "unconfigured",
                content |-> NoContent, provider_calls |-> 0]
          ELSE [pc |-> "awaiting", op |-> op, query |-> q, event |-> "none",
                content |-> NoContent, provider_calls |-> 1]]
    /\ UNCHANGED <<api_key, openai_available>>
    /\ UNCHANGED <<gate_vars, query_vars, heur_vars, ctx_vars, conc_vars, chat_vars, http_vars>>

ParseIntent(c, q)     == Enter(c, "parse_intent", q)
ExtractEntities(c, q) == Enter(c, "extract_entities", q)
GenerateSql(c, q)     == Enter(c, "generate_sql", q)

\* a retry: after a timeout or an error the provider call is started once more
Resume_retries_once(c, event, content) ==
    /\ call[c].pc = "awaiting"
    /\ call' = [call EXCEPT ![c] =
          IF event \in {"timeout", "provider_error"} /\ call[c].provider_calls < 2
          THEN [@ EXCEPT !.provider_calls = @ + 1]
          ELSE [@ EXCEPT !.pc = "returned", !.event = event, !.content = content]]
    /\ UNCHANGED <<api_key, openai_available>>
    /\ UNCHANGED <<gate_vars, query_vars, heur_vars, ctx_vars, conc_vars, chat_vars, http_vars>>

\* no asyncio.wait_for around the provider call: the method waits on
Resume_without_timeout(c, event, content) ==
    /\ call[c].pc = "awaiting"
    /\ event # "timeout"
    /\ call' = [call EXCEPT ![c] =
          [@ EXCEPT !.pc = "returned", !.event = event, !.content = content]]
    /\ UNCHANGED <<api_key, openai_available>>
    /\ UNCHANGED <<gate_vars, query_vars, heur_vars, ctx_vars, conc_vars, chat_vars, http_vars>>

\* the awaited provider call ends with event; the method runs to its return
Resume(c, event, content) ==
    /\ call[c].pc = "awaiting"
    /\ call' = [call EXCEPT ![c] =
          [@ EXCEPT !.pc = "returned", !.event = event, !.content = content]]
    /\ UNCHANGED <<api_key, openai_available>>
    /\ UNCHANGED <<gate_vars, query_vars, heur_vars, ctx_vars, conc_vars, chat_vars, http_vars>>

ProviderResponds(c, content) == Resume(c, "response", content)
ProviderTimesOut(c)          == Resume(c, "timeout", NoContent)
ProviderFails(c)             == Resume(c, "provider_error", NoContent)

\* what the call of request c did, once it has returned: the operation applied
\* to the question and to the way its provider call ended
Out(c) ==
    Operation(call[c].op, call[c].query, call[c].event, call[c].content)

\* the /parse-intent endpoint, given what NLPService.parse_intent did: the
\* response model is built from result["intent"] and result["confidence"];
\* any exception becomes HTTPException(status_code=500)
parse_intent_endpoint(out) ==
    IF out.raised
    THEN [status_code |-> 500, detail |-> "Failed to parse intent"]
    ELSE IF "dict" \notin DOMAIN out.ret
    THEN [status_code |-> 500, detail |-> "Failed to parse intent"]
    ELSE IF "intent" \notin DOMAIN out.ret.dict \/ "confidence" \notin DOMAIN out.ret.dict
    THEN \* KeyError
         [status_code |-> 500, detail |-> "Failed to parse intent"]
    ELSE [status_code |-> 200, intent |-> out.ret.dict.intent,
          confidence |-> out.ret.dict.confidence]

\* the /extract-entities endpoint: ExtractEntitiesResponse(entities=entities)
\* validates entities as List[Dict]
extract_entities_endpoint(out) ==
    IF out.raised
    THEN [status_code |-> 500, detail |-> "Failed to extract entities"]
    ELSE IF "list" \notin DOMAIN out.ret
    THEN \* pydantic ValidationError
         [status_code |-> 500, detail |-> "Failed to extract entities"]
    ELSE [status_code |-> 200, entities |-> out.ret.list]

\* the /generate-sql endpoint: the response model is built from
\* result["sql_query"], result["explanation"] and result["confidence"]
generate_sql_endpoint(out) ==
    IF out.raised
    THEN [status_code |-> 500, detail |-> "Failed to generate SQL query"]
    ELSE IF "dict" \notin DOMAIN out.ret
    THEN [status_code |-> 500, detail |-> "Failed to generate SQL query"]
    ELSE IF \/ "sql_query" \notin DOMAIN out.ret.dict
            \/ "explanation" \notin DOMAIN out.ret.dict
            \/ "confidence" \notin DOMAIN out.ret.dict
    THEN \* KeyError
         [status_code |-> 500, detail |-> "Failed to generate SQL query"]
    ELSE [status_code |-> 200, sql_query |-> out.ret.dict.sql_query,
          explanation |-> out.ret.dict.explanation,
          confidence |-> out.ret.dict.confidence]

\* the HTTP response to request c, once its operation has returned
Response(c) ==
    CASE call[c].op = "parse_intent"     -> parse_intent_endpoint(Out(c))
      [] call[c].op = "extract_entities" -> extract_entities_endpoint(Out(c))
      [] call[c].op = "generate_sql"     -> generate_sql_endpoint(Out(c))

\* the caller has taken the result; the request slot is free again
Finish(c) ==
    /\ call[c].pc = "returned"
    /\ call' = [call EXCEPT ![c] = IdleCall]
    /\ UNCHANGED <<api_key, openai_available>>
    /\ UNCHANGED <<gate_vars, query_vars, heur_vars, ctx_vars, conc_vars, chat_vars, http_vars>>

-----------------------------------------------------------------------------
(* SpecCtx: the operations called with their context arguments.  A dict is
   written as the sequence of its keys, a conversation history as the
   sequence of its turns, numbered from the oldest. *)

\* the most turns a conversation history holds
MaxTurns == 4

\* schema_context, user_preferences, request.context: None, {} or a dict
Dicts == { [null |-> TRUE], [dict |-> <<>>], [dict |-> <<"users">>] }

\* conversation_history: None or a list of turns
Histories == { [null |-> TRUE] } \cup { [list |-> [i \in 1..n |-> i]] : n \in 0..MaxTurns }

\* the truth value Python gives None, a dict or a list
Truthy(v) ==
    IF "null" \in DOMAIN v THEN FALSE
    ELSE IF "dict" \in DOMAIN v THEN v.dict # <<>>
    ELSE v.list # <<>>

\* seq[-n:]
LastSlice(seq, n) == SubSeq(seq, IF Len(seq) > n THEN Len(seq) - n + 1 ELSE 1, Len(seq))

\* seq[:n], where seq[-n:] was meant
FirstSlice(seq, n) == SubSeq(seq, 1, IF Len(seq) > n THEN n ELSE Len(seq))

\* the history section made of the first three turns
sql_prompt_first_turns(natural_language_query, schema_context, conversation_history, user_preferences) ==
    [system |->
        (IF Truthy(schema_context)
         THEN <<[label |-> "Database Schema:", json |-> schema_context.dict]>> ELSE <<>>)
        \o (IF Truthy(conversation_history)
            THEN <<[label |-> "Previous conversation:",
                    json |-> FirstSlice(conversation_history.list, 3)]>> ELSE <<>>)
        \o (IF Truthy(user_preferences)
            THEN <<[label |-> "User preferences:", json |-> user_preferences.dict]>> ELSE <<>>),
     user |-> "Convert this to SQL: " \o natural_language_query]

\* the prompt of NLPService.generate_sql: the sections put into system_prompt,
\* in their order (an empty section string adds nothing), and user_prompt;
\* json.dumps writes the value it is given, keeping the order of a list
sql_prompt(natural_language_query, schema_context, conversation_history, user_preferences) ==
    [system |->
        (IF Truthy(schema_context)
         THEN <<[label |-> "Database Schema:", json |-> schema_context.dict]>> ELSE <<>>)
        \o (IF Truthy(conversation_history)
            THEN <<[label |-> "Previous conversation:",
                    json |-> LastSlice(conversation_history.list, 3)]>> ELSE <<>>)
        \o (IF Truthy(user_preferences)
            THEN <<[label |-> "User preferences:", json |-> user_preferences.dict]>> ELSE <<>>),
     user |-> "Convert this to SQL: " \o natural_language_query]

\* the prompt of NLPService.extract_entities
entities_prompt(query, schema_context) ==
    [system |->
        IF Truthy(schema_context)
        THEN <<[label |-> "Available tables and columns:", json |-> schema_context.dict]>>
        ELSE <<>>,
     user |-> "Query: " \o query]

NoPrompt == [none |-> TRUE]

\* the heuristic SQL chosen from the schema when one is given
generate_sql_with_context_reads_schema(natural_language_query, schema_context, conversation_history, user_preferences, event, content) ==
    [prompt |-> IF openai_available
                THEN sql_prompt(natural_language_query, schema_context,
                                conversation_history, user_preferences)
                ELSE NoPrompt,
     out |-> IF generate_sql(natural_language_query, event, content).path = "fallback"
                /\ Truthy(schema_context)
             THEN Returned("fallback",
                           FallbackSqlResult("SELECT * FROM " \o schema_context.dict[1] \o ";",
                                             "Retrieves all records from the first table"),
                           <<>>, <<>>)
             ELSE generate_sql(natural_language_query, event, content)]

\* NLPService.generate_sql with all its arguments: the prompt it builds, if it
\* gets that far, and what it does
generate_sql_with_context(natural_language_query, schema_context, conversation_history, user_preferences, event, content) ==
    [prompt |-> IF openai_available
                THEN sql_prompt(natural_language_query, schema_context,
                                conversation_history, user_preferences)
                ELSE NoPrompt,
     out |-> generate_sql(natural_language_query, event, content)]

\* NLPService.extract_entities with all its arguments
extract_entities_with_context(query, schema_context, event, content) ==
    [prompt |-> IF openai_available THEN entities_prompt(query, schema_context) ELSE NoPrompt,
     out |-> extract_entities(query, event, content)]

\* the /parse-intent endpoint calls parse_intent(request.query): request.context
\* is not handed on, and parse_intent's prompt is a constant
parse_intent_with_context(query, context, event, content) ==
    [prompt |-> NoPrompt,
     out |-> parse_intent(query, event, content)]

CtxQuestions == {"count products", "find user 42 named 'Bob'"}

\* how the provider call of a configured service may end
CtxOutcomes ==
    { [event |-> "timeout", content |-> NoContent],
      [event |-> "response", content |-> [undecodable |-> TRUE]],
      [event |-> "response",
       content |-> [json |-> [dict |-> [sql_query |-> [str |-> "SELECT name FROM users;"],
                                        explanation |-> "Lists the user names",
                                        confidence |-> 9]]]] }

\* the outcomes possible for this service
Outcomes ==
    IF openai_available THEN CtxOutcomes
    ELSE { [event |-> "unconfigured", content |-> NoContent] }

InitCtx == ctx_call = [op |-> "none"]

GenerateSqlWithContext(q, sc, h, p, o) ==
    /\ o \in Outcomes
    /\ LET r == generate_sql_with_context(q, sc, h, p, o.event, o.content)
       IN  ctx_call' = [op |-> "generate_sql", query |-> q, schema_context |-> sc,
                        conversation_history |-> h, user_preferences |-> p,
                        event |-> o.event, prompt |-> r.prompt, out |-> r.out]
    /\ UNCHANGED <<gate_vars, query_vars, heur_vars, nlp_vars, conc_vars, chat_vars, http_vars>>

ExtractEntitiesWithContext(q, sc, o) ==
    /\ o \in Outcomes
    /\ LET r == extract_entities_with_context(q, sc, o.event, o.content)
       IN  ctx_call' = [op |-> "extract_entities", query |-> q, schema_context |-> sc,
                        conversation_history |-> [null |-> TRUE],
                        user_preferences |-> [null |-> TRUE],
                        event |-> o.event, prompt |-> r.prompt, out |-> r.out]
    /\ UNCHANGED <<gate_vars, query_vars, heur_vars, nlp_vars, conc_vars, chat_vars, http_vars>>

ParseIntentWithContext(q, context, o) ==
    /\ o \in Outcomes
    /\ LET r == parse_intent_with_context(q, context, o.event, o.content)
       IN  ctx_call' = [op |-> "parse_intent", query |-> q, schema_context |-> context,
                        conversation_history |-> [null |-> TRUE],
                        user_preferences |-> [null |-> TRUE],
                        event |-> o.event, prompt |-> r.prompt, out |-> r.out]
    /\ UNCHANGED <<gate_vars, query_vars, heur_vars, nlp_vars, conc_vars, chat_vars, http_vars>>

-----------------------------------------------------------------------------
(* SpecHttp: the /query endpoints.  Each request constructs its QueryService;
   between two requests query_history is the history the next request's
   service starts with. *)

\* the most executions stored by the services of /query/execute requests
MaxRequests == 3

\* one service object kept for all requests
QueryService_shared(previous_history) == previous_history

\* QueryService(): self.query_history of the service a request constructs,
\* whatever the service of the previous request held
QueryService_new(previous_history) == <<>>

\* the /query/execute endpoint, given the result of execute_query
execute_query_endpoint(result) ==
    [status_code |-> 200, success |-> result.success, data |-> result.data,
     columns |-> result.columns, row_count |-> result.row_count,
     metadata |-> IF "metadata" \in DOMAIN result THEN result.metadata ELSE "{}"]

\* the /query/history endpoint, given the list of get_query_history: each item
\* is read at "natural_language_query", a key no stored entry has
get_query_history_endpoint(history) ==
    IF history = <<>>
    THEN [status_code |-> 200, body |-> <<>>]
    ELSE \* KeyError
         [status_code |-> 500, detail |-> "Failed to fetch query history"]

InitHttp ==
    /\ http_executed = 0
    /\ http_out = [op |-> "none"]

\* POST /query/execute
ExecuteRequest(sql_query, user_id, dry_run) ==
    /\ http_executed < MaxRequests
    /\ LET r == execute_query(sql_query, user_id, dry_run)
       IN  /\ http_out' = [op |-> "execute", sql_query |-> sql_query, user_id |-> user_id,
                           dry_run |-> dry_run, response |-> execute_query_endpoint(r.ret)]
           /\ http_executed' = http_executed + (Len(r.history) - Len(query_history))
           /\ query_history' = QueryService_new(r.history)
    /\ UNCHANGED q_out
    /\ UNCHANGED <<gate_vars, heur_vars, nlp_vars, ctx_vars, conc_vars, chat_vars>>

\* GET /query/history
HistoryRequest(user_id, limit, offset) ==
    /\ http_out' = [op |-> "history", user_id |-> user_id, limit |-> limit,
                    offset |-> offset,
                    response |-> get_query_history_endpoint(
                                     get_query_history(user_id, limit, offset))]
    /\ query_history' = QueryService_new(query_history)
    /\ UNCHANGED <<q_out, http_executed>>
    /\ UNCHANGED <<gate_vars, heur_vars, nlp_vars, ctx_vars, conc_vars, chat_vars>>

-----------------------------------------------------------------------------
(* SpecConc: requests served concurrently.  The coroutines of one event loop
   interleave at their await, the provider call; each request has its own
   locals, kept in its record of task. *)

\* the requests in flight at once
NumConcurrent == 2
Tasks == 1..NumConcurrent

ConcQuestions == {"show users", "count products"}

\* how the awaited provider call of one request may end
ConcOutcomes ==
    { [event |-> "timeout", content |-> NoContent],
      [event |-> "response",
       content |-> [json |-> [dict |-> [sql_query |-> [str |-> "SELECT name FROM users;"],
                                        explanation |-> "Lists the user names",
                                        confidence |-> 9]]]] }

IdleTask == [pc |-> "idle"]

InitConc == task = [t \in Tasks |-> IdleTask]

\* the question kept in one attribute of the service, which the request that
\* entered first still holds when this one resumes
resume_task_shared_question(t, event, content) ==
    LET first == CHOOSE u \in DOMAIN task : task[u].pc # "idle"
    IN  Operation(task[t].op, task[first].query, event, content)

\* the rest of the method after its await: it works on the arguments and
\* locals of its own call
resume_task(t, event, content) ==
    Operation(task[t].op, task[t].query, event, content)

\* a request enters its method: unconfigured it returns at once, otherwise it
\* runs to the await of the provider call
StartTask(t, op, q) ==
    /\ task[t].pc = "idle"
    /\ task' = [task EXCEPT ![t] =
          IF ~ openai_available
          THEN [pc |-> "returned", op |-> op, query |-> q, event |-> "unconfigured",
                content |-> NoContent,
                result |-> Operation(op, q, "unconfigured", NoContent)]
          ELSE [pc |-> "awaiting", op |-> op, query |-> q]]
    /\ UNCHANGED <<gate_vars, query_vars, heur_vars, nlp_vars, ctx_vars, chat_vars, http_vars>>

\* the provider call of request t ends; its method runs to the return
TaskResumes(t, o) ==
    /\ task[t].pc = "awaiting"
    /\ task' = [task EXCEPT ![t] =
          [pc |-> "returned", op |-> task[t].op, query |-> task[t].query,
           event |-> o.event, content |-> o.content,
           result |-> resume_task(t, o.event, o.content)]]
    /\ UNCHANGED <<gate_vars, query_vars, heur_vars, nlp_vars, ctx_vars, chat_vars, http_vars>>

\* the endpoint has sent the response of request t
TaskDone(t) ==
    /\ task[t].pc = "returned"
    /\ task' = [task EXCEPT ![t] = IdleTask]
    /\ UNCHANGED <<gate_vars, query_vars, heur_vars, nlp_vars, ctx_vars, chat_vars, http_vars>>

-----------------------------------------------------------------------------
(* SpecChat: one ChatService object.  self.conversations is a function from
   the conversation ids in use to the conversation records. *)

\* the most process_message calls made on one conversation
MaxExchanges == 2

\* request.message: one per branch of _generate_response ("Show orders" takes
\* the first: "how" is in "show")
ChatMessages == {"Show orders", "list orders", "count users", "table info", "hello"}

\* request.conversation_id: None, "" or an id
ConversationIds == { [null |-> TRUE], [str |-> ""], [str |-> "c1"] }

\* the values str(uuid.uuid4()) may give
Uuids == {"uuid-1"}

ChatTimestamp == "2024-01-01T00:00:00Z"

\* ChatService._generate_response
_generate_response(message, context) ==
    LET message_lower == lower(message)
    IN  IF AnyIn(<<"help", "how", "what">>, message_lower)
        THEN [message |-> "I'm here to help you with SQL queries! You can ask me things like 'Show me all users' or 'What's the total sales this month?'. I can also help you understand your database schema.",
              message_type |-> "help",
              suggested_actions |->
                  << [text |-> "Show example queries", action |-> "show_examples"],
                     [text |-> "Explain database schema", action |-> "explain_schema"] >>]
        ELSE IF AnyIn(<<"show", "display", "get", "find", "list">>, message_lower)
        THEN [message |-> "I understand you want to retrieve some data. Could you be more specific about which table or what information you're looking for? For example: 'Show me all users who registered last month'",
              message_type |-> "clarification",
              suggested_actions |->
                  << [text |-> "Show all users", action |-> "generate_sql",
                      sql |-> "SELECT * FROM users LIMIT 10"],
                     [text |-> "Show recent orders", action |-> "generate_sql",
                      sql |-> "SELECT * FROM orders ORDER BY created_at DESC LIMIT 10"] >>]
        ELSE IF AnyIn(<<"count", "total", "sum", "average">>, message_lower)
        THEN [message |-> "I can help you calculate statistics. What would you like to count or calculate? For example: 'Count total users' or 'Calculate average order amount'",
              message_type |-> "clarification",
              suggested_actions |->
                  << [text |-> "Count all users", action |-> "generate_sql",
                      sql |-> "SELECT COUNT(*) as total_users FROM users"],
                     [text |-> "Total sales", action |-> "generate_sql",
                      sql |-> "SELECT SUM(amount) as total_sales FROM orders"] >>]
        ELSE IF AnyIn(<<"schema", "table", "column", "structure">>, message_lower)
        THEN [message |-> "Here's information about your database schema. You have tables for users, orders, and products. Would you like me to explain any specific table or show you what queries you can run?",
              message_type |-> "schema_info",
              suggested_actions |->
                  << [text |-> "Explain users table", action |-> "explain_table",
                      table |-> "users"],
                     [text |-> "Show table relationships", action |-> "show_relationships"] >>]
        ELSE [message |-> "I understand you said: '" \o message
                          \o "'. Let me help you convert this to a SQL query. Could you provide more details about what data you're looking for?",
              message_type |-> "text",
              suggested_actions |->
                  << [text |-> "Be more specific", action |-> "clarify"],
                     [text |-> "Show examples", action |-> "show_examples"] >>]

\* if not conversation_id
NoConversationId(conversation_id) ==
    "null" \in DOMAIN conversation_id \/ conversation_id.str = ""

\* the conversation is owned by whoever posts to it last
process_message_reassigns_owner(id, message, user_id, context) ==
    LET response == _generate_response(message, context)
        created == [id |-> id, user_id |-> user_id, messages |-> <<>>,
                    created_at |-> ChatTimestamp]
        conv == IF id \in DOMAIN conversations
                THEN [conversations[id] EXCEPT !.user_id = user_id] ELSE created
        logged == [conv EXCEPT !.messages =
                      @ \o << [role |-> "user", content |-> message,
                               timestamp |-> ChatTimestamp],
                              [role |-> "assistant", content |-> response.message,
                               timestamp |-> ChatTimestamp] >>]
    IN  [ret |-> response,
         conversations |-> [k \in DOMAIN conversations \cup {id} |->
                               IF k = id THEN logged ELSE conversations[k]]]

\* each call starts the log of its conversation afresh
process_message_restarts_log(id, message, user_id, context) ==
    LET response == _generate_response(message, context)
        created == [id |-> id, user_id |-> user_id, messages |-> <<>>,
                    created_at |-> ChatTimestamp]
        conv == IF id \in DOMAIN conversations
                THEN [conversations[id] EXCEPT !.messages = <<>>] ELSE created
        logged == [conv EXCEPT !.messages =
                      @ \o << [role |-> "user", content |-> message,
                               timestamp |-> ChatTimestamp],
                              [role |-> "assistant", content |-> response.message,
                               timestamp |-> ChatTimestamp] >>]
    IN  [ret |-> response,
         conversations |-> [k \in DOMAIN conversations \cup {id} |->
                               IF k = id THEN logged ELSE conversations[k]]]

\* ChatService.process_message once the conversation id is settled (given, or
\* drawn by uuid4): the response returned and self.conversations afterwards
process_message(id, message, user_id, context) ==
    LET response == _generate_response(message, context)
        created == [id |-> id, user_id |-> user_id, messages |-> <<>>,
                    created_at |-> ChatTimestamp]
        conv == IF id \in DOMAIN conversations THEN conversations[id] ELSE created
        logged == [conv EXCEPT !.messages =
                      @ \o << [role |-> "user", content |-> message,
                               timestamp |-> ChatTimestamp],
                              [role |-> "assistant", content |-> response.message,
                               timestamp |-> ChatTimestamp] >>]
    IN  [ret |-> response,
         conversations |-> [k \in DOMAIN conversations \cup {id} |->
                               IF k = id THEN logged ELSE conversations[k]]]

InitChat ==
    /\ conversations = <<>>
    /\ chat_out = [op |-> "none"]

\* one call of process_message
ProcessMessage(message, user_id, conversation_id, context) ==
    \E id \in IF NoConversationId(conversation_id)
              THEN Uuids \ DOMAIN conversations
              ELSE {conversation_id.str} :
        /\ id \in DOMAIN conversations
               => Len(conversations[id].messages) < 2 * MaxExchanges
        /\ LET r == process_message(id, message, user_id, context)
           IN  /\ conversations' = r.conversations
               /\ chat_out' = [op |-> "process_message", message |-> message,
                               user_id |-> user_id, conversation_id |-> conversation_id,
                               id |-> id, ret |-> r.ret]
        /\ UNCHANGED <<gate_vars, query_vars, heur_vars, nlp_vars, ctx_vars, conc_vars, http_vars>>

-----------------------------------------------------------------------------
(* Specifications *)

\* a specification starts every service fresh; only SpecHeur draws a question
InitRest == InitCtx /\ InitConc /\ InitChat /\ InitHttp

Init == InitGate /\ InitQuery /\ InitHeur({""}) /\ InitNlp({[null |-> TRUE]}) /\ InitRest

InitHeurSpec ==
    InitGate /\ InitQuery /\ InitHeur(QuestionPool) /\ InitNlp({[null |-> TRUE]}) /\ InitRest

InitNlpSpec == InitGate /\ InitQuery /\ InitHeur({""}) /\ InitNlp(ApiKeys) /\ InitRest

NextGate ==
    \/ \E s \in SqlPool : IsDangerousQueryCall(s)
    \/ \E s \in SqlPool : SanitizeSqlCall(s)

NextQuery ==
    \/ \E s \in ExecSqlPool, u \in UserIds, d \in BOOLEAN : ExecuteQuery(s, u, d)
    \/ \E s \in QuerySqlPool, ctx \in SchemaContexts : ValidateQuery(s, ctx)
    \/ \E u \in UserIds, limit \in 0..MaxPage, offset \in 0..MaxPage :
          GetQueryHistory(u, limit, offset)

\* scans interleaved with validations and executions of the same statements
NextScan ==
    \/ \E s \in ScanSqlPool : IsDangerousQueryCall(s)
    \/ \E s \in ScanSqlPool : SanitizeSqlCall(s)
    \/ \E s \in ScanSqlPool, d \in BOOLEAN : ExecuteQuery(s, "alice", d)
    \/ \E s \in ScanSqlPool : ValidateQuery(s, "None")

NextCtx ==
    \/ \E q \in CtxQuestions, sc \in Dicts, h \in Histories, p \in Dicts, o \in CtxOutcomes
              \cup {[event |-> "unconfigured", content |-> NoContent]} :
          GenerateSqlWithContext(q, sc, h, p, o)
    \/ \E q \in CtxQuestions, sc \in Dicts, o \in CtxOutcomes
              \cup {[event |-> "unconfigured", content |-> NoContent]} :
          ExtractEntitiesWithContext(q, sc, o)
    \/ \E q \in CtxQuestions, context \in Dicts, o \in CtxOutcomes
              \cup {[event |-> "unconfigured", content |-> NoContent]} :
          ParseIntentWithContext(q, context, o)

NextConc ==
    \/ \E t \in Tasks, op \in {"parse_intent", "extract_entities", "generate_sql"},
          q \in ConcQuestions : StartTask(t, op, q)
    \/ \E t \in Tasks, o \in ConcOutcomes : TaskResumes(t, o)
    \/ \E t \in Tasks : TaskDone(t)

NextChat ==
    \E message \in ChatMessages, user_id \in UserIds, conversation_id \in ConversationIds,
       context \in Dicts :
        ProcessMessage(message, user_id, conversation_id, context)

NextHttp ==
    \/ \E s \in QuerySqlPool, u \in UserIds, d \in BOOLEAN : ExecuteRequest(s, u, d)
    \/ \E u \in UserIds, limit \in 0..MaxPage, offset \in 0..MaxPage :
          HistoryRequest(u, limit, offset)

NextHeur ==
    \/ FallbackIntentParsingCall
    \/ FallbackSqlGenerationCall
    \/ FallbackEntityExtractionCall

NextNlp ==
    \/ \E c \in Calls, q \in NlpQuestions : ParseIntent(c, q)
    \/ \E c \in Calls, q \in NlpQuestions : ExtractEntities(c, q)
    \/ \E c \in Calls, q \in NlpQuestions : GenerateSql(c, q)
    \/ \E c \in Calls, content \in ProviderContents : ProviderResponds(c, content)
    \/ \E c \in Calls : ProviderTimesOut(c)
    \/ \E c \in Calls : ProviderFails(c)
    \/ \E c \in Calls : Finish(c)

SpecGate  == Init /\ [][NextGate]_vars
SpecQuery == Init /\ [][NextQuery]_vars
SpecHeur  == InitHeurSpec /\ [][NextHeur]_vars
SpecNlp   == InitNlpSpec /\ [][NextNlp]_vars
SpecScan  == Init /\ [][NextScan]_vars
SpecCtx   == InitNlpSpec /\ [][NextCtx]_vars
SpecConc  == InitNlpSpec /\ [][NextConc]_vars
SpecChat  == Init /\ [][NextChat]_vars
SpecHttp  == Init /\ [][NextHttp]_vars

\* asyncio.wait_for(..., timeout=self.timeout): the timer of an awaited
\* provider call fires unless the call has ended before; nothing obliges the
\* provider to answer
SpecNlpFair ==
    SpecNlp /\ \A c \in Calls : WF_vars(ProviderTimesOut(c))

-----------------------------------------------------------------------------
(* Vocabulary of the properties *)

\* text contains word, letters compared without regard to case
MentionsCI(text, word) ==
    \E i \in 0..(Len(text) - Len(word)) :
        \A j \in 1..Len(word) :
            LowerChar(CharAt(text, i + j)) = LowerChar(CharAt(word, j))

MentionsAny(text, words) == \E w \in words : MentionsCI(text, w)

GenerationDenylist == {"drop", "delete", "truncate", "alter", "create", "grant", "revoke"}
StrictDenylist     == GenerationDenylist \cup {"insert", "update"}

-----------------------------------------------------------------------------
(* C1: the strict scan returns true exactly for the statements that contain,
   case-insensitively, one of DROP, DELETE, TRUNCATE, ALTER, CREATE, GRANT,
   REVOKE, INSERT, UPDATE; the generation-time scan warns exactly for the
   same list without INSERT and UPDATE; so a statement whose only denylist
   keywords are INSERT or UPDATE triggers the strict scan and not the
   generation-time one. *)
C1_ScansMatchDenylists ==
    /\ strict_out.called =>
          ( strict_out.ret <=>
              \E kw \in StrictDenylist : MentionsCI(strict_out.sql_query, kw) )
    /\ sanitize_out.called =>
          ( sanitize_out.warnings # <<>> <=>
              \E kw \in GenerationDenylist : MentionsCI(sanitize_out.sql_query, kw) )
    /\ ( /\ strict_out.called
         /\ sanitize_out.called
         /\ strict_out.sql_query = sanitize_out.sql_query
         /\ \E kw \in {"insert", "update"} : MentionsCI(strict_out.sql_query, kw)
         /\ \A kw \in GenerationDenylist : ~ MentionsCI(strict_out.sql_query, kw) )
       => (strict_out.ret /\ sanitize_out.warnings = <<>>)

\* both scans have run on a statement whose only denylist keyword is UPDATE,
\* inside an identifier
C1_Witness ==
    /\ strict_out.called
    /\ sanitize_out.called
    /\ strict_out.sql_query = "SELECT updated_at FROM t"
    /\ sanitize_out.sql_query = "SELECT updated_at FROM t"
    /\ strict_out.ret
    /\ sanitize_out.warnings = <<>>

(* C2: validate_query returns is_valid = false exactly when the strict scan
   flags the statement, whatever the schema_context, and exactly then errors
   is non-empty; two statements with the same strict verdict get the same
   is_valid whatever warnings and suggestions each draws. *)
C2_ValidIffNotFlagged ==
    q_out.op = "validate_query" =>
        /\ (q_out.ret.is_valid = FALSE) <=> _is_dangerous_query(q_out.sql_query)
        /\ (q_out.ret.errors # <<>>) <=> (q_out.ret.is_valid = FALSE)
        /\ \A s \in QuerySqlPool, ctx \in SchemaContexts :
              (_is_dangerous_query(s) <=> _is_dangerous_query(q_out.sql_query))
                 => validate_query(s, ctx).is_valid = q_out.ret.is_valid

\* a flagged statement that draws no warning was found invalid
C2_Witness ==
    /\ q_out.op = "validate_query"
    /\ q_out.sql_query = "SELECT updated_at FROM products;"
    /\ q_out.ret.is_valid = FALSE
    /\ q_out.ret.errors # <<>>
    /\ q_out.ret.warnings = <<>>

(* C3: execute_query reaches _execute_mock_query only for a statement the
   strict scan did not flag and only when dry_run is false; a flagged
   statement yields success = false with an error message whether or not
   dry_run is set. *)
C3_GateBeforeExecution ==
    q_out.op = "execute_query" =>
        /\ q_out.mock_called =>
              (~ _is_dangerous_query(q_out.sql_query) /\ ~ q_out.dry_run)
        /\ _is_dangerous_query(q_out.sql_query) =>
              (q_out.ret.success = FALSE /\ q_out.ret.error # "")

\* a dry run of a flagged statement was rejected
C3_Witness ==
    /\ q_out.op = "execute_query"
    /\ q_out.dry_run
    /\ _is_dangerous_query(q_out.sql_query)
    /\ q_out.ret.success = FALSE
    /\ ~ q_out.mock_called

(* C7: for every question, the SQL of the heuristic fallback is flagged by
   neither scan, validate_query finds it valid and execute_query does not
   reject it. *)
C7_FallbackSqlPassesBothGates ==
    fb_sql_out.called =>
        LET sql == fb_sql_out.ret.dict.sql_query
        IN  /\ ~ _is_dangerous_query(sql)
            /\ sanitize_warnings(sql) = <<>>
            /\ \A ctx \in SchemaContexts : validate_query(sql, ctx).is_valid
            /\ \A u \in UserIds, d \in BOOLEAN : execute_query(sql, u, d).ret.success

\* the orders template was produced and passes
C7_Witness ==
    /\ fb_sql_out.called
    /\ fb_sql_out.query = "ORDERS"
    /\ fb_sql_out.ret.dict.sql_query = "SELECT * FROM orders LIMIT 10;"
    /\ validate_query(fb_sql_out.ret.dict.sql_query, "None").is_valid

(* C8: for a question that mentions "people" or "users" (as a substring, in
   any case), heuristic SQL generation returns "SELECT * FROM users LIMIT 10;"
   exactly when the question mentions "first", "10" or "limit", and
   "SELECT * FROM users;" otherwise, with confidence 0.6 and the fallback
   mark. *)
C8_UsersTemplate ==
    ( /\ fb_sql_out.called
      /\ MentionsAny(fb_sql_out.query, {"people", "users"}) )
    => LET r == fb_sql_out.ret.dict
           limited == MentionsAny(fb_sql_out.query, {"first", "10", "limit"})
       IN  /\ (r.sql_query = "SELECT * FROM users LIMIT 10;") <=> limited
           /\ ~ limited => r.sql_query = "SELECT * FROM users;"
           /\ r.confidence = 6
           /\ r.metadata.fallback = TRUE

\* a question in capitals that mentions users and first got the LIMIT template
C8_Witness ==
    /\ fb_sql_out.called
    /\ fb_sql_out.query = "Users First"
    /\ fb_sql_out.ret.dict.sql_query = "SELECT * FROM users LIMIT 10;"
    /\ fb_sql_out.ret.dict.confidence = 6

(* C9: heuristic SQL generation applies its rules in the order people/users,
   count, products, orders, default, the first match winning, and its output
   is always one of the five fixed templates. *)
C9_RuleOrder ==
    fb_sql_out.called =>
        LET q == fb_sql_out.query
            sql == fb_sql_out.ret.dict.sql_query
        IN  /\ sql \in { "SELECT * FROM users LIMIT 10;", "SELECT * FROM users;",
                         "SELECT COUNT(*) FROM users;", "SELECT * FROM products LIMIT 10;",
                         "SELECT * FROM orders LIMIT 10;" }
            /\ IF MentionsAny(q, {"people", "users"})
               THEN sql \in {"SELECT * FROM users LIMIT 10;", "SELECT * FROM users;"}
               ELSE IF MentionsCI(q, "count") THEN sql = "SELECT COUNT(*) FROM users;"
               ELSE IF MentionsCI(q, "products") THEN sql = "SELECT * FROM products LIMIT 10;"
               ELSE IF MentionsCI(q, "orders") THEN sql = "SELECT * FROM orders LIMIT 10;"
               ELSE sql = "SELECT * FROM users LIMIT 10;"

\* a question that mentions orders before products got the products template
C9_Witness ==
    /\ fb_sql_out.called
    /\ fb_sql_out.query = "orders of Products"
    /\ fb_sql_out.ret.dict.sql_query = "SELECT * FROM products LIMIT 10;"

(* C10: heuristic intent classification is an ordered first-match scan of the
   lower-cased question: retrieval, creation, mutation, removal, statistical
   keywords, else SELECT; the result has confidence 0.7, no entities and the
   fallback mark, and its intent is never JOIN, FILTER, SORT or SCHEMA. *)
C10_IntentRuleOrder ==
    fb_intent_out.called =>
        LET q == fb_intent_out.query
            r == fb_intent_out.ret.dict
        IN  /\ r.intent =
                  ( IF MentionsAny(q, {"show", "list", "get", "find", "select"}) THEN "SELECT"
                    ELSE IF MentionsAny(q, {"add", "insert", "create"}) THEN "INSERT"
                    ELSE IF MentionsAny(q, {"update", "change", "modify"}) THEN "UPDATE"
                    ELSE IF MentionsAny(q, {"delete", "remove"}) THEN "DELETE"
                    ELSE IF MentionsAny(q, {"count", "sum", "average", "total"}) THEN "AGGREGATE"
                    ELSE "SELECT" )
            /\ (MentionsCI(q, "count") /\ MentionsCI(q, "show")) => r.intent = "SELECT"
            /\ r.confidence = 7
            /\ r.entities = <<>>
            /\ r.metadata.fallback = TRUE
            /\ r.intent \notin {"JOIN", "FILTER", "SORT", "SCHEMA"}

\* a question with both "show" and "count" was classified SELECT
C10_Witness ==
    /\ fb_intent_out.called
    /\ fb_intent_out.query = "show count"
    /\ fb_intent_out.ret.dict.intent = "SELECT"

-----------------------------------------------------------------------------
(* Vocabulary of the NLPService properties *)

\* the heuristic result of an operation for a question
FallbackOf(op, query) ==
    CASE op = "parse_intent"     -> _fallback_intent_parsing(query)
      [] op = "extract_entities" -> _fallback_entity_extraction(query)
      [] op = "generate_sql"     -> _fallback_sql_generation(query)

\* the result says of itself that it is heuristic: metadata.fallback is True
MarkedHeuristic(ret) ==
    /\ "dict" \in DOMAIN ret
    /\ "metadata" \in DOMAIN ret.dict
    /\ "fallback" \in DOMAIN ret.dict.metadata
    /\ ret.dict.metadata.fallback = TRUE

ReturnedCalls == {c \in Calls : call[c].pc = "returned"}

(* C4 as stated: unconfigured, each of parse_intent, extract_entities and
   generate_sql returns the heuristic result for its question without
   starting a provider call, and the result is marked heuristic. *)
C4_Stated ==
    \A c \in ReturnedCalls :
        ~ openai_available =>
            /\ Out(c).ret = FallbackOf(call[c].op, call[c].query)
            /\ call[c].provider_calls = 0
            /\ MarkedHeuristic(Out(c).ret)

(* C4 as amended: unconfigured, each of the three operations returns the
   heuristic result for its question without starting a provider call; the
   results of parse_intent and generate_sql are marked heuristic
   (metadata.fallback), the entity list of extract_entities carries no
   mark. *)
C4_UnconfiguredReturnsHeuristic ==
    \A c \in ReturnedCalls :
        ~ openai_available =>
            /\ Out(c).ret = FallbackOf(call[c].op, call[c].query)
            /\ call[c].provider_calls = 0
            /\ call[c].event = "unconfigured"
            /\ ~ Out(c).raised
            /\ call[c].op \in {"parse_intent", "generate_sql"}
                  => MarkedHeuristic(Out(c).ret)
            /\ call[c].op = "extract_entities"
                  => ("list" \in DOMAIN Out(c).ret /\ ~ MarkedHeuristic(Out(c).ret))

\* unconfigured, a request has returned two heuristic entities in an unmarked
\* list, no provider call started
C4_Witness ==
    /\ ~ openai_available
    /\ \E c \in ReturnedCalls :
          /\ call[c].op = "extract_entities"
          /\ call[c].query = "find user 42 named 'Bob'"
          /\ Len(Out(c).ret.list) = 2
          /\ ~ MarkedHeuristic(Out(c).ret)
          /\ call[c].provider_calls = 0

(* C5: whenever the provider call of parse_intent, extract_entities or
   generate_sql ends in a timeout, a provider error or a response that does
   not decode, the operation returns the heuristic result for the same
   question; no exception leaves any of the three operations. *)
C5_FailuresDegrade ==
    \A c \in ReturnedCalls :
        /\ ~ Out(c).raised
        /\ ( \/ call[c].event \in {"timeout", "provider_error"}
             \/ (call[c].event = "response" /\ "undecodable" \in DOMAIN call[c].content) )
           => /\ Out(c).path = "fallback"
              /\ Out(c).ret = FallbackOf(call[c].op, call[c].query)

\* a request has returned the heuristic SQL after a response that did not
\* decode
C5_Witness ==
    \E c \in ReturnedCalls :
        /\ call[c].op = "generate_sql"
        /\ call[c].provider_calls = 1
        /\ call[c].event = "response"
        /\ "undecodable" \in DOMAIN call[c].content
        /\ Out(c).ret = _fallback_sql_generation(call[c].query)

(* C6 as stated: on every path by which generate_sql returns (LLM success,
   unconfigured, timeout, error), the returned sql_query has been passed
   through the scan of _sanitize_sql before the return. *)
C6_Stated ==
    \A c \in ReturnedCalls :
        call[c].op = "generate_sql" =>
            \E i \in 1..Len(Out(c).sanitized) :
                _sanitize_sql(Out(c).sanitized[i]) = Out(c).ret.dict.sql_query

(* C6 as amended: on the LLM-success path the returned sql_query is the
   provider's statement after it went through _sanitize_sql; on the
   unconfigured, timeout and error paths generate_sql returns the fixed
   template of _fallback_sql_generation, which is passed through no scan. *)
C6_ScannedOnLlmPathOnly ==
    \A c \in ReturnedCalls :
        call[c].op = "generate_sql" =>
            /\ Out(c).path = "llm" =>
                  \E i \in 1..Len(Out(c).sanitized) :
                      _sanitize_sql(Out(c).sanitized[i]) = Out(c).ret.dict.sql_query
            /\ Out(c).path = "fallback" =>
                  /\ Out(c).sanitized = <<>>
                  /\ Out(c).ret = _fallback_sql_generation(call[c].query)

\* a provider statement with a denylist keyword went through the scan and was
\* returned stripped
C6_Witness ==
    \E c \in ReturnedCalls :
        /\ call[c].op = "generate_sql"
        /\ Out(c).path = "llm"
        /\ Out(c).sanitized = <<"  drop table users; \n">>
        /\ Out(c).warnings = <<"DROP">>
        /\ Out(c).ret.dict.sql_query = "drop table users;"

-----------------------------------------------------------------------------
(* Vocabulary of the entity properties *)

\* the offsets (from 0) at which a standalone integer token starts
NumericTokenOffsets(query) ==
    {i - 1 : i \in {j \in 1..Len(query) : NumberStartsAt(query, j)}}

\* the entities of one type, in the order of the list
EntitiesOfType(list, type) == SelectSeq(list, LAMBDA e : e.type = type)

(* C11 as stated: the heuristic extraction yields one NUMERIC_VALUE entity
   (confidence 0.8) per standalone integer token occurrence and one
   TEXT_VALUE entity (confidence 0.9) per quoted substring, and the position
   of each entity is the offset of its own occurrence, so that the entities of
   repeated tokens have distinct positions. *)
C11_Stated ==
    fb_entities_out.called =>
        LET nums  == EntitiesOfType(fb_entities_out.ret.list, "NUMERIC_VALUE")
            texts == EntitiesOfType(fb_entities_out.ret.list, "TEXT_VALUE")
        IN  /\ Len(nums) + Len(texts) = Len(fb_entities_out.ret.list)
            /\ Len(nums) = Cardinality(NumericTokenOffsets(question))
            /\ \A k \in 1..Len(nums) :
                  /\ nums[k].confidence = 8
                  /\ nums[k].position \in NumericTokenOffsets(question)
            /\ \A k, l \in 1..Len(nums) : k # l => nums[k].position # nums[l].position
            /\ \A k \in 1..Len(texts) :
                  /\ texts[k].confidence = 9
                  /\ texts[k].position >= 1
                  /\ CharAt(question, texts[k].position) \in {"\"", "'"}
            /\ \A k, l \in 1..Len(texts) : k # l => texts[k].position # texts[l].position

(* C12: within one call of parse_intent, extract_entities or generate_sql at
   most one provider call is started; a call that ended in a timeout or any
   other failure has started exactly one and returns by the heuristic
   fallback, and a returned call is never awaited again. *)
C12_SingleAttempt ==
    [][ \A c \in Calls :
          /\ call'[c].provider_calls <= 1
          /\ call[c].pc = "awaiting" =>
                /\ call'[c].pc \in {"awaiting", "returned"}
                /\ call'[c].provider_calls = call[c].provider_calls
          /\ (call'[c].pc = "returned" /\ call'[c].event # "unconfigured")
                => call'[c].provider_calls = 1
          /\ call[c].pc = "returned" => call'[c].pc # "awaiting" ]_vars

\* a request whose provider call raised has returned the heuristic intent
\* after that one call
C12_Witness ==
    \E c \in ReturnedCalls :
        /\ call[c].op = "parse_intent"
        /\ call[c].event = "provider_error"
        /\ call[c].provider_calls = 1
        /\ Out(c).path = "fallback"

(* C13: if the provider never answers a started call, each of parse_intent,
   extract_entities and generate_sql still returns: every awaited call
   eventually returns, and a call ended by the timeout returns the
   heuristic result after its single provider call. *)
C13_HungProviderReturns ==
    /\ \A c \in Calls : (call[c].pc = "awaiting") ~> (call[c].pc = "returned")
    /\ [](\A c \in ReturnedCalls :
            call[c].event = "timeout" =>
                /\ Out(c).path = "fallback"
                /\ Out(c).ret = FallbackOf(call[c].op, call[c].query)
                /\ call[c].provider_calls = 1)

\* a request of extract_entities has returned the heuristic entities after
\* the timeout
C13_Witness ==
    \E c \in ReturnedCalls :
        /\ call[c].op = "extract_entities"
        /\ call[c].event = "timeout"
        /\ call[c].query = "find user 42 named 'Bob'"
        /\ Len(Out(c).ret.list) = 2

(* C14: the scans are functions of the SQL string alone: a scan of the string
   of the previous scan of the same kind, whatever validations and executions
   came between, gives the same verdict (and _sanitize_sql the same value and
   warnings), and a scan changes neither query_history nor anything else of
   the service. *)
C14_ScansArePure ==
    [][ /\ ( /\ strict_out.called
             /\ strict_out'.called
             /\ strict_out'.sql_query = strict_out.sql_query )
           => strict_out'.ret = strict_out.ret
        /\ ( /\ sanitize_out.called
             /\ sanitize_out'.called
             /\ sanitize_out'.sql_query = sanitize_out.sql_query )
           => sanitize_out' = sanitize_out
        /\ (strict_out' # strict_out \/ sanitize_out' # sanitize_out)
           => UNCHANGED <<query_vars, heur_vars, nlp_vars, ctx_vars, conc_vars, chat_vars, http_vars>> ]_vars

\* the strict scan has flagged a statement while the history holds the
\* rejection of that statement and an execution of another one
C14_Witness ==
    /\ strict_out.called
    /\ strict_out.sql_query = "DELETE FROM users"
    /\ strict_out.ret
    /\ sanitize_out.called
    /\ sanitize_out.sql_query = "select 1"
    /\ \E k, l \in 1..Len(query_history) :
          /\ query_history[k].sql_query = "DELETE FROM users"
          /\ ~ query_history[k].success
          /\ query_history[l].sql_query = "select 1"
          /\ query_history[l].success

\* t is s without its leading and trailing whitespace
IsTrimOf(t, s) ==
    /\ \E a \in 0..Len(s) :
          /\ a + Len(t) <= Len(s)
          /\ SubSeq(s, a + 1, a + Len(t)) = t
          /\ \A k \in (1..a) \cup ((a + Len(t) + 1)..Len(s)) :
                CharAt(s, k) \in Whitespace
    /\ t # "" => \A k \in {1, Len(t)} : CharAt(t, k) \notin Whitespace

\* the call of request c got a provider response whose sql_query is a string
\* that mentions a keyword of the generation-time denylist
GotFlaggedSql(c) ==
    /\ call[c].pc = "returned"
    /\ call[c].op = "generate_sql"
    /\ call[c].event = "response"
    /\ "json" \in DOMAIN call[c].content
    /\ "dict" \in DOMAIN call[c].content.json
    /\ "sql_query" \in DOMAIN call[c].content.json.dict
    /\ "str" \in DOMAIN call[c].content.json.dict.sql_query
    /\ MentionsAny(call[c].content.json.dict.sql_query.str, GenerationDenylist)

(* C15: the generation-time gate never blocks: when the provider call
   succeeds and its sql_query mentions a keyword of the generation-time
   denylist, generate_sql returns the provider's result with that SQL, only
   leading and trailing whitespace removed, not an error and not the
   fallback; validate_query reports is_valid = false for the same SQL. *)
C15_GenerationGateNeverBlocks ==
    \A c \in Calls :
        GotFlaggedSql(c) =>
            /\ ~ Out(c).raised
            /\ Out(c).path = "llm"
            /\ Out(c).ret # _fallback_sql_generation(call[c].query)
            /\ IsTrimOf(Out(c).ret.dict.sql_query, call[c].content.json.dict.sql_query.str)
            /\ Out(c).ret.dict.explanation = call[c].content.json.dict.explanation
            /\ ~ validate_query(Out(c).ret.dict.sql_query, "None").is_valid

\* generate_sql has returned the provider's DROP statement, which
\* validate_query rejects
C15_Witness ==
    \E c \in Calls :
        /\ GotFlaggedSql(c)
        /\ Out(c).ret.dict.sql_query = "drop table users;"
        /\ ~ validate_query("drop table users;", "None").is_valid

(* C16 as stated: every result of parse_intent and generate_sql carries a
   provenance marker that says heuristic exactly when the result was produced
   by the heuristic fallback, whatever the provider put in its payload.  (The
   marker of the code is metadata.fallback; its absence is read as LLM.) *)
C16_Stated ==
    \A c \in ReturnedCalls :
        call[c].op \in {"parse_intent", "generate_sql"} =>
            ( MarkedHeuristic(Out(c).ret) <=> Out(c).path = "fallback" )

\* the decoded payload v has the structure the operation expects: an object
\* with the required fields for intent and SQL, an array for entities
Conforms(op, v) ==
    CASE op = "parse_intent" ->
            /\ "dict" \in DOMAIN v
            /\ {"intent", "confidence"} \subseteq DOMAIN v.dict
      [] op = "extract_entities" -> "list" \in DOMAIN v
      [] op = "generate_sql" ->
            /\ "dict" \in DOMAIN v
            /\ {"sql_query", "explanation", "confidence"} \subseteq DOMAIN v.dict

(* C17 as stated: a provider response that decodes but does not conform to
   the expected structure is replaced by the heuristic result, and no
   endpoint answers HTTP 500 because of a provider payload. *)
C17_Stated ==
    \A c \in ReturnedCalls :
        (call[c].event = "response" /\ "json" \in DOMAIN call[c].content) =>
            /\ ~ Conforms(call[c].op, call[c].content.json) =>
                  /\ Out(c).path = "fallback"
                  /\ Out(c).ret = FallbackOf(call[c].op, call[c].query)
            /\ Response(c).status_code # 500

\* the nine intents of the system prompt
Intents ==
    {"SELECT", "INSERT", "UPDATE", "DELETE", "AGGREGATE", "JOIN", "FILTER", "SORT", "SCHEMA"}

\* a confidence between 0 and 1, in tenths
IsConfidence(x) == x \in 0..10

(* C18 as stated: every result of parse_intent has an intent among the nine
   intents and a confidence in [0,1], and every result of generate_sql has a
   confidence in [0,1], on the LLM path as on the heuristic path.  (A result
   that lacks the field altogether is the case of C17 and not counted here.) *)
C18_Stated ==
    \A c \in ReturnedCalls :
        /\ call[c].op = "parse_intent" =>
              /\ "intent" \in DOMAIN Out(c).ret.dict
                    => Out(c).ret.dict.intent \in Intents
              /\ "confidence" \in DOMAIN Out(c).ret.dict
                    => IsConfidence(Out(c).ret.dict.confidence)
        /\ call[c].op = "generate_sql" =>
              /\ "confidence" \in DOMAIN Out(c).ret.dict
                    => IsConfidence(Out(c).ret.dict.confidence)

(* C19 as stated: every result of generate_sql carries a safety_verdict whose
   is_dangerous value is the verdict of the generation-time scan on the
   returned sql_query. *)
C19_Stated ==
    \A c \in ReturnedCalls :
        call[c].op = "generate_sql" =>
            /\ "safety_verdict" \in DOMAIN Out(c).ret.dict
            /\ Out(c).ret.dict.safety_verdict.is_dangerous
                  = MentionsAny(Out(c).ret.dict.sql_query, GenerationDenylist)

\* the elements of a sequence
Elements(seq) == {seq[k] : k \in 1..Len(seq)}

\* the three warnings of validate_query are emitted exactly on their conditions
WarningsMatchConditions(sql_query, warnings) ==
    /\ "Query should end with semicolon" \in Elements(warnings)
          <=> ~ endswith(strip(sql_query), ";")
    /\ "Using SELECT * may impact performance" \in Elements(warnings)
          <=> MentionsCI(sql_query, "select *")
    /\ "Only SELECT queries are recommended for safety" \in Elements(warnings)
          <=> ~ ( \/ startswith(upper(strip(sql_query)), "SELECT")
                  \/ startswith(upper(strip(sql_query)), "WITH") )

(* C20 as stated: validate_query emits the missing-semicolon warning exactly
   when the trimmed statement does not end with ';', the SELECT * warning
   exactly when the statement contains SELECT * case-insensitively, the
   non-SELECT warning exactly when the trimmed statement does not start with
   SELECT or WITH; every warning comes with its suggestion, so suggestions
   and warnings have the same length. *)
C20_Stated ==
    q_out.op = "validate_query" =>
        /\ WarningsMatchConditions(q_out.sql_query, q_out.ret.warnings)
        /\ Len(q_out.ret.suggestions) = Len(q_out.ret.warnings)

-----------------------------------------------------------------------------
(* C21..C30 *)

\* an argument that was given and is not empty
PresentNonEmpty(v) ==
    /\ "null" \notin DOMAIN v
    /\ Len(IF "dict" \in DOMAIN v THEN v.dict ELSE v.list) > 0

\* the sections of the prompt of the last call that carry this label
SectionsLabelled(label) ==
    { i \in DOMAIN ctx_call.prompt.system : ctx_call.prompt.system[i].label = label }

\* the last call was a generate_sql that built its prompt
OnLlmPathOfGenerateSql ==
    /\ ctx_call.op = "generate_sql"
    /\ "system" \in DOMAIN ctx_call.prompt

(* C21: on the LLM path of generate_sql, for a conversation history of n
   entries the prompt contains exactly the last min(n,3) entries in their
   original order and no earlier entry; the schema, history and preferences
   sections each appear only when the corresponding input is present and
   non-empty. *)
C21_PromptHoldsLastThreeTurns ==
    OnLlmPathOfGenerateSql =>
        /\ SectionsLabelled("Database Schema:") # {}
               <=> PresentNonEmpty(ctx_call.schema_context)
        /\ SectionsLabelled("Previous conversation:") # {}
               <=> PresentNonEmpty(ctx_call.conversation_history)
        /\ SectionsLabelled("User preferences:") # {}
               <=> PresentNonEmpty(ctx_call.user_preferences)
        /\ \A i \in SectionsLabelled("Previous conversation:") :
               LET h == ctx_call.conversation_history.list
                   n == Len(h)
                   m == IF n < 3 THEN n ELSE 3
                   shown == ctx_call.prompt.system[i].json
               IN  /\ Len(shown) = m
                   /\ \A k \in 1..m : shown[k] = h[n - m + k]
                   /\ \A k \in 1..(n - m) : \A j \in 1..m : shown[j] # h[k]

C21_Witness ==
    /\ OnLlmPathOfGenerateSql
    /\ PresentNonEmpty(ctx_call.conversation_history)
    /\ Len(ctx_call.conversation_history.list) = 4
    /\ \E i \in SectionsLabelled("Previous conversation:") :
           ctx_call.prompt.system[i].json = <<2, 3, 4>>
    /\ SectionsLabelled("Database Schema:") = {}
    /\ SectionsLabelled("User preferences:") # {}

\* the last call returned the heuristic result
OnFallbackPath == ctx_call.op # "none" /\ ctx_call.out.path = "fallback"

(* C29: the heuristic results depend on the question text only: two calls of
   the fallback path of generate_sql, parse_intent or extract_entities with
   the same question but different schema_context, conversation_history or
   user_preferences return identical results. *)
C29_FallbackIgnoresContext ==
    [][ ( /\ OnFallbackPath
          /\ OnFallbackPath'
          /\ ctx_call'.op = ctx_call.op
          /\ ctx_call'.query = ctx_call.query )
        => ctx_call'.out.ret = ctx_call.out.ret ]_vars

C29_Witness ==
    /\ OnFallbackPath
    /\ ctx_call.op = "generate_sql"
    /\ PresentNonEmpty(ctx_call.schema_context)
    /\ PresentNonEmpty(ctx_call.conversation_history)
    /\ PresentNonEmpty(ctx_call.user_preferences)
    /\ ctx_call.out.ret = FallbackOf("generate_sql", ctx_call.query)

\* what the call of request t returns when it runs alone with the same
\* question and the same provider outcome
ResultAlone(t) == Operation(task[t].op, task[t].query, task[t].event, task[t].content)

(* C22: concurrent parse_intent, extract_entities and generate_sql calls for
   different requests share no mutable state: under any interleaving,
   including some calls timing out while others succeed, each call's result
   is the one it would produce when run alone with the same question and the
   same provider outcome. *)
C22_CallsDoNotInterfere ==
    \A t \in DOMAIN task :
        task[t].pc = "returned" => task[t].result = ResultAlone(t)

C22_Witness ==
    \E t, u \in DOMAIN task :
        /\ t # u
        /\ task[t].pc = "returned" /\ task[u].pc = "returned"
        /\ task[t].query # task[u].query
        /\ task[t].event = "timeout" /\ task[u].event = "response"
        /\ task[u].result.path = "llm"
        /\ task[t].result.ret = FallbackOf(task[t].op, task[t].query)

\* the API key is missing, empty or the placeholder value
KeyNotConfigured ==
    \/ "null" \in DOMAIN api_key
    \/ Len(api_key.str) = 0
    \/ api_key.str = "your_openai_api_key_here"

(* C23: the Unconfigured status (openai_available) is computed once when the
   NLPService is constructed, as false exactly when the API key is missing,
   empty or the placeholder value, and no operation of the service ever
   changes it afterwards, whatever the outcome of later provider calls. *)
C23_StatusFixedAtConstruction ==
    /\ openai_available = ~ KeyNotConfigured
    /\ [][openai_available' = openai_available]_vars

C23_Witness ==
    /\ openai_available
    /\ \E c \in DOMAIN call :
           /\ call[c].pc = "returned"
           /\ call[c].event \in {"timeout", "provider_error"}

\* the log of a conversation id, empty while the id is not in use
LogOf(convs, id) == IF id \in DOMAIN convs THEN convs[id].messages ELSE <<>>

(* C24: on one ChatService, the message log of a conversation id is
   append-only: every successful process_message for that id appends exactly
   two messages, the user message and then the assistant reply, and never
   changes or removes an earlier message, so after k calls the log has 2k
   messages with alternating user/assistant roles in call order. *)
C24_LogAppendOnly ==
    [][ /\ DOMAIN conversations \subseteq DOMAIN conversations'
        /\ \A id \in DOMAIN conversations' :
              LET old == LogOf(conversations, id)
                  new == LogOf(conversations', id)
              IN  /\ id # chat_out'.id => new = old
                  /\ id = chat_out'.id =>
                        /\ Len(new) = Len(old) + 2
                        /\ SubSeq(new, 1, Len(old)) = old
                        /\ new[Len(old) + 1].role = "user"
                        /\ new[Len(old) + 1].content = chat_out'.message
                        /\ new[Len(old) + 2].role = "assistant"
                        /\ new[Len(old) + 2].content = chat_out'.ret.message
                  /\ \A i \in 1..Len(new) :
                        new[i].role = IF i % 2 = 1 THEN "user" ELSE "assistant" ]_vars

C24_Witness ==
    /\ "c1" \in DOMAIN conversations
    /\ Len(conversations["c1"].messages) = 4
    /\ conversations["c1"].messages[1].content = "list orders"
    /\ conversations["c1"].messages[3].content = "hello"
    /\ conversations["c1"].messages[4].role = "assistant"
    /\ "uuid-1" \in DOMAIN conversations

\* the statements offered by the last response in a generate_sql action
SuggestedStatements ==
    { chat_out.ret.suggested_actions[i].sql :
        i \in { j \in DOMAIN chat_out.ret.suggested_actions :
                    chat_out.ret.suggested_actions[j].action = "generate_sql" } }

(* C28 as stated: every SQL statement that the chat service offers in a
   suggested action (action generate_sql) is classified safe by the strict
   gate, so passing a suggested statement to execute_query or validate_query
   is never rejected as a dangerous query. *)
C28_Stated ==
    chat_out.op = "process_message" =>
        \A sql \in SuggestedStatements :
            /\ ~ _is_dangerous_query(sql)
            /\ execute_query(sql, chat_out.user_id, FALSE).ret.success
            /\ validate_query(sql, "None").is_valid

(* C30: a conversation record's user_id is set when the conversation is
   first created and is never changed afterwards; a later process_message
   with the same conversation_id but a different user_id is not rejected and
   appends its messages to that same conversation's log. *)
C30_OwnerFixedOthersMayPost ==
    [][ \A id \in DOMAIN conversations' :
           /\ id \in DOMAIN conversations =>
                 conversations'[id].user_id = conversations[id].user_id
           /\ id \notin DOMAIN conversations =>
                 conversations'[id].user_id = chat_out'.user_id
           /\ ( /\ id \in DOMAIN conversations
                /\ id = chat_out'.id
                /\ chat_out'.user_id # conversations[id].user_id )
              => /\ chat_out'.ret.message_type # "error"
                 /\ Len(conversations'[id].messages) = Len(conversations[id].messages) + 2
                 /\ conversations'[id].messages[Len(conversations[id].messages) + 1].content
                        = chat_out'.message ]_vars

C30_Witness ==
    /\ chat_out.op = "process_message"
    /\ chat_out.id = "c1"
    /\ chat_out.user_id = "bob"
    /\ conversations["c1"].user_id = "alice"
    /\ Len(conversations["c1"].messages) = 4
    /\ conversations["c1"].messages[3].content = chat_out.message

\* the last call was an execute_query
LastExecuted == q_out.op = "execute_query"

(* C25: execute_query never raises: every call returns a result with a
   boolean success; when success is false the result has empty data and
   columns, row_count 0 and a non-empty error string, and when success is
   true row_count equals the number of rows in data. *)
C25_ExecuteAlwaysReturns ==
    LastExecuted =>
        /\ "success" \in DOMAIN q_out.ret
        /\ q_out.ret.success \in BOOLEAN
        /\ ~ q_out.ret.success =>
              /\ q_out.ret.data = <<>>
              /\ q_out.ret.columns = <<>>
              /\ q_out.ret.row_count = 0
              /\ "error" \in DOMAIN q_out.ret
              /\ Len(q_out.ret.error) > 0
        /\ q_out.ret.success => q_out.ret.row_count = Len(q_out.ret.data)

C25_Witness ==
    /\ LastExecuted
    /\ ~ q_out.ret.success
    /\ q_out.ret.error = "Potentially dangerous query detected"
    /\ \E k \in 1..Len(query_history) :
           query_history[k].success /\ query_history[k].row_count = 3

(* C26: on one QueryService, query_history is append-only and grows by
   exactly one entry per execute_query call, recording that call's sql_query,
   user_id and success flag, except that a dry run of a statement that passes
   the strict gate appends nothing; a dry run of a flagged statement still
   appends a failure entry; validate_query and get_query_history leave
   query_history unchanged. *)
C26_HistoryGrowsByExecutions ==
    [][ LET n == Len(query_history)
            flagged == MentionsAny(q_out'.sql_query, StrictDenylist)
        IN  /\ Len(query_history') >= n
            /\ SubSeq(query_history', 1, n) = query_history
            /\ q_out'.op = "execute_query" =>
                  IF q_out'.dry_run /\ ~ flagged
                  THEN query_history' = query_history
                  ELSE /\ Len(query_history') = n + 1
                       /\ query_history'[n + 1].sql_query = q_out'.sql_query
                       /\ query_history'[n + 1].user_id = q_out'.user_id
                       /\ query_history'[n + 1].success = q_out'.ret.success
                       /\ flagged => ~ query_history'[n + 1].success
            /\ q_out'.op \in {"validate_query", "get_query_history"} =>
                  query_history' = query_history ]_vars

C26_Witness ==
    /\ LastExecuted
    /\ q_out.dry_run
    /\ ~ q_out.ret.success
    /\ Len(query_history) = 2
    /\ query_history[1].success
    /\ query_history[2].sql_query = q_out.sql_query
    /\ ~ query_history[2].success

(* C27: after any sequence of /query/execute requests, a /query/history
   request returns an empty list for every user_id, because each endpoint
   call constructs a fresh QueryService whose query_history starts empty; a
   query executed through one request is never visible to a later request. *)
C27_HistoryAlwaysEmpty ==
    /\ query_history = <<>>
    /\ http_out.op = "history" =>
          /\ http_out.response.status_code = 200
          /\ http_out.response.body = <<>>

C27_Witness ==
    /\ http_out.op = "history"
    /\ http_out.user_id = "alice"
    /\ http_out.limit > 0 /\ http_out.offset = 0
    /\ http_executed = MaxRequests
    /\ http_out.response.body = <<>>

=============================================================================
